---- MODULE Spec2Model ----
(***************************************************************************)
(* The documentation sync scripts of the ai-docs plugin: the three         *)
(* repository-clone scripts (fastmcp, the sync-github template, langgraph),*)
(* the llms.txt scripts (xai, the llms.txt template), the direct-fetch     *)
(* template and the HTML-scrape template.  One invocation of a script is   *)
(* a run; runs follow one another against the same output directory.      *)
(*                                                                         *)
(* A string is a sequence of one-character strings.                        *)
(***************************************************************************)
EXTENDS Integers, Sequences, FiniteSets, TLC

(***************************************************************************)
(* Bounds of the model.                                                    *)
(***************************************************************************)
\* entries of the cloned source directory
MaxEntries == 2
\* sections of the llms.txt blob
MaxSections == 2
\* invocations of the script, one after the other
MaxRuns == 2
\* pieces of a logical path given to a path mapper
MaxPathTokens == 4
\* elements below the body of a page given to the content extractor
MaxElements == 2

(***************************************************************************)
(* Strings.                                                                *)
(***************************************************************************)
\* the characters of the model, in ascending order of UTF-16 code unit
Alphabet ==
  <<"\n", " ", "#", "-", ".", "/", "=", "a", "b", "c", "d", "e", "f", "g", "h", "i",
    "j", "k", "l", "m", "n", "o", "p", "q", "r", "s", "t", "u", "v", "w", "x", "y", "z">>

\* the rank of a character in the order Array.prototype.sort compares by
Code(c) == CHOOSE i \in 1..Len(Alphabet) : Alphabet[i] = c

RECURSIVE StrLess(_, _)
\* a < b for strings: code unit by code unit, a proper prefix first
StrLess(a, b) ==
  IF b = <<>> THEN FALSE
  ELSE IF a = <<>> THEN TRUE
  ELSE IF Code(Head(a)) # Code(Head(b)) THEN Code(Head(a)) < Code(Head(b))
  ELSE StrLess(Tail(a), Tail(b))

RECURSIVE Insert(_, _)
\* x put into the sorted sequence s, after the elements equal to it
Insert(x, s) ==
  IF s = <<>> THEN <<x>>
  ELSE IF StrLess(x, Head(s)) THEN <<x>> \o s
  ELSE <<Head(s)>> \o Insert(x, Tail(s))

\* fault: the list is left in the order the documents were met
Unsorted(s) == s

RECURSIVE Sort(_)
\* files.sort(): ascending by code units
Sort(s) == IF s = <<>> THEN <<>> ELSE Insert(s[Len(s)], Sort(SubSeq(s, 1, Len(s) - 1)))

\* s.endsWith(suf)
EndsWith(s, suf) ==
  /\ Len(s) >= Len(suf)
  /\ SubSeq(s, Len(s) - Len(suf) + 1, Len(s)) = suf

\* s.startsWith(pre)
StartsWith(s, pre) ==
  /\ Len(s) >= Len(pre)
  /\ SubSeq(s, 1, Len(pre)) = pre

DotMd == <<".", "m", "d">>
DotMdx == <<".", "m", "d", "x">>

\* fault: the .mdx extension is kept
KeepMdx(s) == s

\* name.replace(/\.mdx$/, ".md")
ReplaceMdx(s) ==
  IF EndsWith(s, DotMdx) THEN SubSeq(s, 1, Len(s) - Len(DotMdx)) \o DotMd ELSE s

\* name.replace(/\.(md|mdx)$/, "")
StripMdExt(s) ==
  IF EndsWith(s, DotMd) THEN SubSeq(s, 1, Len(s) - Len(DotMd))
  ELSE IF EndsWith(s, DotMdx) THEN SubSeq(s, 1, Len(s) - Len(DotMdx))
  ELSE s

\* fault: the path separators are kept
KeepSlashes(s) == s

\* s.replace(/\//g, "-")
SlashToDash(s) == [i \in 1..Len(s) |-> IF s[i] = "/" THEN "-" ELSE s[i]]

RECURSIVE CollapseDashes(_)
\* s.replace(/-+/g, "-")
CollapseDashes(s) ==
  IF Len(s) < 2 THEN s
  ELSE IF s[1] = "-" /\ s[2] = "-" THEN CollapseDashes(Tail(s))
  ELSE <<s[1]>> \o CollapseDashes(Tail(s))

DocsSlash == <<"d", "o", "c", "s", "/">>

\* fault: the docs/ prefix is kept
KeepDocs(s) == s

\* s.replace(/^docs\//, "")
StripDocs(s) ==
  IF StartsWith(s, DocsSlash) THEN SubSeq(s, Len(DocsSlash) + 1, Len(s)) ELSE s

\* path.join(a, b) below the resources directory; join("", b) is b
Join(a, b) == IF a = <<>> THEN b ELSE a \o <<"/">> \o b

RECURSIVE LastSlash(_, _)
\* the index of the last "/" of s at or before i, 0 when there is none
LastSlash(s, i) == IF i = 0 THEN 0 ELSE IF s[i] = "/" THEN i ELSE LastSlash(s, i - 1)

\* path.dirname(p) relative to the resources directory ("" is the directory itself)
Dirname(p) ==
  IF LastSlash(p, Len(p)) = 0 THEN <<>> ELSE SubSeq(p, 1, LastSlash(p, Len(p)) - 1)

\* path.split("/").pop()
LastSegment(p) == SubSeq(p, LastSlash(p, Len(p)) + 1, Len(p))

\* the directories mkdir(dir, {recursive: true}) makes exist, dir included
RECURSIVE Ancestors(_)
Ancestors(d) == IF d = <<>> THEN {<<>>} ELSE {d} \cup Ancestors(Dirname(d))

(***************************************************************************)
(* Titles: content.match(/^#\s+(.+)$/m).                                   *)
(***************************************************************************)
\* \s, over the characters of the model
IsWs(c) == c = " " \/ c = "\n"

Max(S) == CHOOSE x \in S : \A y \in S : y <= x
Min(S) == CHOOSE x \in S : \A y \in S : x <= y

RECURSIVE WsEnd(_, _)
\* the last index of the run of whitespace of s that starts at j (j - 1 when none)
WsEnd(s, j) == IF j <= Len(s) /\ IsWs(s[j]) THEN WsEnd(s, j + 1) ELSE j - 1

RECURSIVE LineEnd(_, _)
\* the last index of the line of s that holds index k
LineEnd(s, k) == IF k < Len(s) /\ s[k + 1] # "\n" THEN LineEnd(s, k + 1) ELSE k

\* where the group (.+) starts when /#\s+(.+)$/ matches at i, 0 when it does not:
\* \s+ is greedy and gives characters back until a character other than a
\* newline follows it
HeadingStart(s, i) ==
  IF s[i] # "#" THEN 0
  ELSE LET K == {k \in (i + 2)..(WsEnd(s, i + 1) + 1) : k <= Len(s) /\ s[k] # "\n"}
       IN  IF K = {} THEN 0 ELSE Max(K)

\* match[1] of the leftmost match of /^#\s+(.+)$/m in s, or fallback
ExtractTitle(s, fallback) ==
  LET I == {i \in 1..Len(s) : (i = 1 \/ s[i - 1] = "\n") /\ HeadingStart(s, i) > 0}
  IN  IF I = {} THEN fallback
      ELSE SubSeq(s, HeadingStart(s, Min(I)), LineEnd(s, HeadingStart(s, Min(I))))

\* path.split("/").pop() || path
PathTitle(path) == IF LastSegment(path) = <<>> THEN path ELSE LastSegment(path)

(***************************************************************************)
(* The llms.txt section parser and path mapper.                            *)
(***************************************************************************)
Delim == <<"=", "=", "=", "/">>
Eq3 == <<"=", "=", "=">>

\* the delimiter ===/ starts at index q of s
DelimAt(s, q) == q + Len(Delim) - 1 <= Len(s) /\ SubSeq(s, q, q + Len(Delim) - 1) = Delim

\* fault: the blob is taken as one section
Unsplit(s) == <<s>>

RECURSIVE Split(_)
\* content.split(/(?====\/)/): cut before every ===/ that is not at the start
Split(s) ==
  LET Q == {q \in 2..Len(s) : DelimAt(s, q)}
  IN  IF Q = {} THEN <<s>>
      ELSE <<SubSeq(s, 1, Min(Q) - 1)>> \o Split(SubSeq(s, Min(Q), Len(s)))

RECURSIVE NonEqEnd(_, _)
\* the last index of the run of characters other than "=" of s that starts at j
NonEqEnd(s, j) == IF j <= Len(s) /\ s[j] # "=" THEN NonEqEnd(s, j + 1) ELSE j - 1

\* section.match(/^===\/([^=]+)===/) matches
SectionMatches(sec) ==
  /\ DelimAt(sec, 1)
  /\ NonEqEnd(sec, Len(Delim) + 1) >= Len(Delim) + 1
  /\ NonEqEnd(sec, Len(Delim) + 1) + Len(Eq3) <= Len(sec)
  /\ SubSeq(sec, NonEqEnd(sec, Len(Delim) + 1) + 1,
            NonEqEnd(sec, Len(Delim) + 1) + Len(Eq3)) = Eq3

\* match[1]: the path between ===/ and ===
SectionPath(sec) == SubSeq(sec, Len(Delim) + 1, NonEqEnd(sec, Len(Delim) + 1))

RECURSIVE TrimLeft(_)
TrimLeft(s) == IF s # <<>> /\ IsWs(Head(s)) THEN TrimLeft(Tail(s)) ELSE s

RECURSIVE TrimRight(_)
TrimRight(s) ==
  IF s # <<>> /\ IsWs(s[Len(s)]) THEN TrimRight(SubSeq(s, 1, Len(s) - 1)) ELSE s

\* s.trim()
Trim(s) == TrimRight(TrimLeft(s))

\* fault: the delimiter is left in the body
SectionUnstripped(sec) == Trim(sec)

\* section.replace(/^===[^=]+===\n?/, "").trim(), for a section that matches
SectionBody(sec) ==
  LET e == NonEqEnd(sec, Len(Delim) + 1) + Len(Eq3)
      rest == SubSeq(sec, e + 1, Len(sec))
  IN  Trim(IF rest # <<>> /\ Head(rest) = "\n" THEN Tail(rest) ELSE rest)

\* docs.set(path, body) of the xai script's Map: a present key keeps its place
MapSet(docs, path, body) ==
  IF \E i \in 1..Len(docs) : docs[i].path = path
  THEN [i \in 1..Len(docs) |->
          IF docs[i].path = path THEN [path |-> path, content |-> body] ELSE docs[i]]
  ELSE Append(docs, [path |-> path, content |-> body])

RECURSIVE ParseSections(_, _, _)
\* the loop over the sections; keyed: docs is a Map (xai), else an array (templates)
ParseSections(secs, docs, keyed) ==
  IF secs = <<>> THEN docs
  ELSE LET sec == Head(secs)
           next == IF SectionMatches(sec) /\ SectionBody(sec) # <<>>
                   THEN IF keyed THEN MapSet(docs, SectionPath(sec), SectionBody(sec))
                        ELSE Append(docs, [path |-> SectionPath(sec),
                                           content |-> SectionBody(sec)])
                   ELSE docs
       IN  ParseSections(Tail(secs), next, keyed)

\* parseLlmsTxt(content)
ParseLlmsTxt(content, keyed) == ParseSections(Split(content), <<>>, keyed)

\* pathToFilename(docPath)
\* fault: no extension is added to the flattened path
PathToFilenameBare(docPath) == CollapseDashes(SlashToDash(StripDocs(docPath)))

PathToFilename(docPath) == CollapseDashes(SlashToDash(StripDocs(docPath))) \o DotMd

(***************************************************************************)
(* The scripts and what they fetch.                                        *)
(***************************************************************************)
CloneScripts == {"fastmcp", "github", "langgraph"}
LlmsScripts == {"xai", "llms"}
Scripts == CloneScripts \cup LlmsScripts \cup {"direct", "html"}

\* a regular file of the cloned repository; ok: it can be read
File(name, body, ok) ==
  [kind |-> "file", name |-> name, content |-> body, entries |-> <<>>, ok |-> ok]

\* a directory of the cloned repository, its entries in readdir order
Dir(name, entries) ==
  [kind |-> "dir", name |-> name, content |-> <<>>, entries |-> entries, ok |-> TRUE]

\* the entries the source directory of a repository is made of
EntryPool ==
  { File(<<"a", ".", "m", "d">>, <<"#", " ", "t">>, TRUE),
    File(<<"a", ".", "m", "d", "x">>, <<"x">>, TRUE),
    File(<<"s", "u", "b", "-", "b", ".", "m", "d">>, <<"x">>, TRUE),
    Dir(<<"s", "u", "b">>, <<File(<<"b", ".", "m", "d", "x">>, <<"y">>, TRUE)>>),
    Dir(<<"a", "s", "s", "e", "t", "s">>, <<File(<<"c", ".", "m", "d">>, <<"x">>, TRUE)>>),
    File(<<"n", ".", "t", "x", "t">>, <<"x">>, TRUE),
    File(<<"u", ".", "m", "d">>, <<>>, FALSE) }

RECURSIVE Arrangements(_, _)
\* the sequences of at most n different elements of S
Arrangements(S, n) ==
  IF n = 0 THEN {<<>>}
  ELSE {<<>>} \cup UNION {{<<x>> \o t : t \in Arrangements(S \ {x}, n - 1)} : x \in S}

\* the remote repository: unreachable, without the source path, or with a tree
Repos ==
  {[cloneOk |-> FALSE, hasSource |-> FALSE, entries |-> <<>>, commit |-> "c1"],
   [cloneOk |-> TRUE, hasSource |-> FALSE, entries |-> <<>>, commit |-> "c1"]}
  \cup {[cloneOk |-> TRUE, hasSource |-> TRUE, entries |-> e, commit |-> "c1"] :
          e \in Arrangements(EntryPool, MaxEntries)}

\* pieces of an llms.txt blob
SectionPool ==
  { <<"=", "=", "=", "/", "d", "o", "c", "s", "/", "a", "=", "=", "=", "\n", "x">>,
    <<"=", "=", "=", "/", "d", "o", "c", "s", "/", "a", "=", "=", "=", "\n", "y", "\n">>,
    <<"=", "=", "=", "/", "a", "/", "b", "=", "=", "=", "\n", "#", " ", "t", "\n">>,
    <<"=", "=", "=", "/", "a", "-", "b", "=", "=", "=", "\n", "x", "\n">>,
    <<"=", "=", "=", "/", "c", "=", "=", "=", "\n", " ", "\n">>,
    <<"x", "\n">> }

RECURSIVE Blobs(_)
\* the concatenations of at most n pieces
Blobs(n) ==
  IF n = 0 THEN {<<>>} ELSE {<<>>} \cup {p \o b : p \in SectionPool, b \in Blobs(n - 1)}

\* the llms.txt endpoint: failing, or serving a blob
LlmsSites ==
  {[fetchOk |-> FALSE, blob |-> <<>>]}
  \cup {[fetchOk |-> TRUE, blob |-> b] : b \in Blobs(MaxSections)}

\* the paths the direct-fetch template is configured with
DOC_PATHS ==
  << <<"g", "e", "t", "t", "i", "n", "g", "-", "s", "t", "a", "r", "t", "e", "d", ".", "m", "d">>,
     <<"c", "o", "n", "f", "i", "g", "u", "r", "a", "t", "i", "o", "n", ".", "m", "d">>,
     <<"a", "p", "i", "/", "o", "v", "e", "r", "v", "i", "e", "w", ".", "m", "d">>,
     <<"a", "p", "i", "/", "r", "e", "f", "e", "r", "e", "n", "c", "e", ".", "m", "d">> >>

\* what the site answers for a list entry: a 2xx response whose text is read,
\* a non-2xx response, or a 2xx response whose text cannot be read
Responses(bodies) ==
  {[status |-> "ok", body |-> b] : b \in bodies}
  \cup {[status |-> "http404", body |-> <<>>], [status |-> "reset", body |-> <<>>]}

DirectSites == [1..Len(DOC_PATHS) -> Responses({<<"#", " ", "t">>})]

(***************************************************************************)
(* HTML documents, as the tree parseHTML returns.                          *)
(***************************************************************************)
\* an element: tag, class attribute, role attribute, data-lang attribute, children
El(tag, cls, role, dataLang, kids) ==
  [tag |-> tag, cls |-> cls, role |-> role, dataLang |-> dataLang, text |-> <<>>,
   kids |-> kids]

\* a text node
Text(t) ==
  [tag |-> "#text", cls |-> <<>>, role |-> "", dataLang |-> <<>>, text |-> t, kids |-> <<>>]

\* the pages a site serves
DomPool ==
  { El("html", <<>>, "", <<>>,
       <<El("body", <<>>, "", <<>>,
            <<El("nav", <<>>, "", <<>>, <<Text(<<"n">>)>>),
              El("article", <<>>, "", <<>>,
                 <<El("h1", <<>>, "", <<>>, <<Text(<<"t">>)>>),
                   El("nav", <<>>, "", <<>>, <<Text(<<"m">>)>>),
                   El("pre", <<>>, "", <<>>,
                      <<El("code", <<"l", "a", "n", "g", "u", "a", "g", "e", "-", "p", "y">>, "", <<"j", "s">>,
                           <<Text(<<"x", "\n">>)>>)>>)>>)>>)>>),
    El("html", <<>>, "", <<>>,
       <<El("body", <<>>, "", <<>>,
            <<El("header", <<>>, "", <<>>,
                 <<El("nav", <<>>, "", <<>>, <<Text(<<"n">>)>>)>>),
              El("div", <<"s", "i", "d", "e", "b", "a", "r">>, "", <<>>, <<Text(<<"s">>)>>),
              El("p", <<>>, "", <<>>,
                 <<Text(<<"x">>), El("code", <<>>, "", <<>>, <<Text(<<"y">>)>>)>>)>>)>>) }

\* the pages the HTML-scrape template is configured with
DOC_PAGES ==
  << [url |-> "https://docs.example.com/getting-started",
      outputPath |-> <<"g", "e", "t", "t", "i", "n", "g", "-", "s", "t", "a", "r", "t", "e", "d", ".", "m", "d">>, title |-> "Getting Started"],
     [url |-> "https://docs.example.com/configuration",
      outputPath |-> <<"c", "o", "n", "f", "i", "g", "u", "r", "a", "t", "i", "o", "n", ".", "m", "d">>, title |-> "Configuration"] >>

HtmlSites == [1..Len(DOC_PAGES) -> Responses(DomPool)]

Upstreams(sc) ==
  IF sc \in CloneScripts THEN Repos
  ELSE IF sc \in LlmsScripts THEN LlmsSites
  ELSE IF sc = "direct" THEN DirectSites
  ELSE HtmlSites

(***************************************************************************)
(* The state.                                                              *)
(***************************************************************************)
VARIABLES
  script,    \* the script that is run
  upstream,  \* what the script fetches from
  fs,        \* the output resources directory: dirs, files, manifest
  tmp,       \* the scratch directories that exist, with their contents
  clock,     \* Date.now()
  runs,      \* invocations started so far
  dryRun,    \* --dry-run of the current run
  pc,        \* where the current run is
  commit,    \* commit hash of the clone
  content,   \* the blob fetchLlmsTxt returned
  visits,    \* the documents the walk or the parser yields, in order
  i,         \* index of the next document or list entry
  results,   \* results of the current run
  synced,    \* counter of the fetch loops
  failed,    \* counter of the fetch loops
  err,       \* the error thrown, NoErr when none
  exitCode,  \* exit status of the process, once pc is "done"
  printed,   \* an error was printed
  fetched,   \* the list entries fetched in this run, in order
  wfail,     \* a write to the output directory failed in this run
  logged,    \* the output paths the run printed as written or, with --dry-run,
             \* as to be written, in order
  fs0,       \* the output directory when the current run started
  prev,      \* the run before the current one, <<>> when none
  pc2,       \* where a second, concurrent invocation of the script is
  clock2,    \* Date.now() when the second invocation was started
  intruded,  \* the second invocation removed or replaced the scratch directory
             \* of the current run between that run's clone and its cleanup
  fn,        \* the function that is called on its own, "none" in a run
  arg,       \* its argument
  ret,       \* <<>> before it returns, then <<the value returned>>
  again      \* <<>>, then <<the value returned for the first result as argument>>

vars ==
  <<script, upstream, fs, tmp, clock, runs, dryRun, pc, commit, content, visits, i,
    results, synced, failed, err, exitCode, printed, fetched, wfail, logged, fs0,
    prev, pc2, clock2, intruded, fn, arg, ret, again>>

\* the variables of the second invocation and of the separate function calls
other == <<pc2, clock2, intruded, fn, arg, ret, again>>

\* the variables of a function call on its own
call == <<fn, arg, ret, again>>

NoErr == "none"

\* the function f with f[p] = c
Put(f, p, c) == [q \in DOMAIN f \cup {p} |-> IF q = p THEN c ELSE f[q]]

\* the function f without the key p
Drop(f, p) == [q \in DOMAIN f \ {p} |-> f[q]]

\* TEMP_DIR of a clone script; the template's has Date.now() in its name
TEMP_DIR ==
  CASE script = "fastmcp" -> <<"/tmp/fastmcp-docs-sync", 0>>
    [] script = "langgraph" -> <<"/tmp/langgraph-docs-sync", 0>>
    [] OTHER -> <<"/tmp/docs-sync-", clock>>

\* a scratch directory left behind by a run that was killed
Stale == [cloneOk |-> TRUE, hasSource |-> FALSE, entries |-> <<>>, commit |-> "c0"]

EmptyDir == [dirs |-> {}, files |-> <<>>, manifest |-> <<>>]

Init ==
  /\ script \in Scripts
  /\ upstream \in Upstreams(script)
  /\ fs = EmptyDir
  /\ tmp \in IF script \in {"fastmcp", "langgraph"}
             THEN {<<>>, [d \in {TEMP_DIR} |-> Stale]}
             ELSE {<<>>}
  /\ clock = 0
  /\ runs = 0
  /\ dryRun = FALSE
  /\ pc = "idle"
  /\ commit = ""
  /\ content = <<>>
  /\ visits = <<>>
  /\ i = 1
  /\ results = <<>>
  /\ synced = 0
  /\ failed = 0
  /\ err = NoErr
  /\ exitCode = 0
  /\ printed = FALSE
  /\ fetched = <<>>
  /\ wfail = FALSE
  /\ logged = <<>>
  /\ fs0 = EmptyDir
  /\ prev = <<>>
  /\ pc2 = "idle"
  /\ clock2 = 0
  /\ intruded = FALSE
  /\ fn = "none"
  /\ arg = <<>>
  /\ ret = <<>>
  /\ again = <<>>

\* main: a new invocation of the script, with or without --dry-run
StartRun(dry) ==
  /\ pc \in {"idle", "done"}
  /\ runs < MaxRuns
  /\ runs' = runs + 1
  /\ clock' = clock + 1
  /\ dryRun' = dry
  /\ prev' = IF runs = 0 THEN <<>>
             ELSE <<[dryRun |-> dryRun, results |-> results, wfail |-> wfail,
                     logged |-> logged, exitCode |-> exitCode]>>
  /\ fs0' = fs
  /\ pc' = IF script \in CloneScripts THEN "clone"
           ELSE IF script \in LlmsScripts THEN "fetch" ELSE "loop"
  /\ commit' = ""
  /\ content' = <<>>
  /\ visits' = <<>>
  /\ i' = 1
  /\ results' = <<>>
  /\ synced' = 0
  /\ failed' = 0
  /\ err' = NoErr
  /\ exitCode' = 0
  /\ printed' = FALSE
  /\ fetched' = <<>>
  /\ wfail' = FALSE
  /\ logged' = <<>>
  /\ UNCHANGED <<script, upstream, fs, tmp>>
  /\ UNCHANGED other

(***************************************************************************)
(* The repository-clone scripts.                                           *)
(***************************************************************************)
SKIP_DIRS ==
  { <<".", "c", "u", "r", "s", "o", "r">>, <<"a", "s", "s", "e", "t", "s">>,
    <<"c", "s", "s">>, <<"p", "u", "b", "l", "i", "c">>,
    <<"s", "n", "i", "p", "p", "e", "t", "s">>,
    <<"n", "o", "d", "e", "_", "m", "o", "d", "u", "l", "e", "s">> }

SKIP_FILES == { <<".", "c", "c", "i", "g", "n", "o", "r", "e">> }

\* entry.name.endsWith(".md") || entry.name.endsWith(".mdx")
IsDoc(name) == EndsWith(name, DotMd) \/ EndsWith(name, DotMdx)

\* a file the walk has reached
Visit(entry, relPath) ==
  [relPath |-> relPath, name |-> entry.name, content |-> entry.content, ok |-> entry.ok]

RECURSIVE ProcessDirTopSkips(_, _)
\* fault: the skip-directory set is looked at in the source directory only
ProcessDirTopSkips(entries, relPath) ==
  IF entries = <<>> THEN <<>>
  ELSE LET entry == Head(entries)
           here ==
             IF entry.kind = "dir"
             THEN IF relPath = <<>> /\ entry.name \in SKIP_DIRS THEN <<>>
                  ELSE ProcessDirTopSkips(entry.entries, Join(relPath, entry.name))
             ELSE IF entry.kind = "file"
             THEN IF entry.name \in SKIP_FILES \/ ~IsDoc(entry.name) THEN <<>>
                  ELSE <<Visit(entry, relPath)>>
             ELSE <<>>
       IN  here \o ProcessDirTopSkips(Tail(entries), relPath)

RECURSIVE ProcessDirFastmcp(_, _)
\* processDir of the fastmcp script: the files it handles, in the order it meets them
ProcessDirFastmcp(entries, relPath) ==
  IF entries = <<>> THEN <<>>
  ELSE LET entry == Head(entries)
           here ==
             IF entry.kind = "dir"
             THEN IF entry.name \in SKIP_DIRS THEN <<>>
                  ELSE ProcessDirFastmcp(entry.entries, Join(relPath, entry.name))
             ELSE IF entry.kind = "file"
             THEN IF entry.name \in SKIP_FILES \/ ~IsDoc(entry.name) THEN <<>>
                  ELSE <<Visit(entry, relPath)>>
             ELSE <<>>
       IN  here \o ProcessDirFastmcp(Tail(entries), relPath)

RECURSIVE ProcessDirGithub(_, _)
\* processDir of the sync-github template and of the langgraph script
ProcessDirGithub(entries, relPath) ==
  IF entries = <<>> THEN <<>>
  ELSE LET entry == Head(entries)
           here ==
             IF entry.kind = "dir"
             THEN ProcessDirGithub(entry.entries, Join(relPath, entry.name))
             ELSE IF IsDoc(entry.name) THEN <<Visit(entry, relPath)>>
             ELSE <<>>
       IN  here \o ProcessDirGithub(Tail(entries), relPath)

\* fastmcp: the flat output filename of a file
OutputNameFastmcp(relPath, name) ==
  IF relPath # <<>> THEN ReplaceMdx(SlashToDash(relPath) \o <<"-">> \o name)
  ELSE ReplaceMdx(name)

\* sync-github, langgraph: the output path of a file, directories kept
OutputRelPath(relPath, name) == Join(relPath, ReplaceMdx(name))

\* fault: the error is noted and the run goes on where it is
ThrowAndGoOn(e) == err' = e /\ pc' = pc

\* fault: the error is noted and the run goes on with the step after
ThrowSwallowed(e) ==
  /\ err' = e
  /\ pc' = CASE pc = "clone" -> "mkdir"
            [] pc = "copy" -> "walk"
            [] pc = "fetch" -> "parse"
            [] OTHER -> pc

\* an error propagates out of the try block of main
Throw(e) ==
  /\ err' = e
  /\ pc' = IF script \in CloneScripts THEN "finally" ELSE "catch"

\* cloneRepo, getCommitHash
CloneRepo ==
  /\ pc = "clone"
  /\ script \in CloneScripts
  /\ IF upstream.cloneOk
     THEN /\ tmp' = Put(tmp, TEMP_DIR, upstream)
          /\ commit' = upstream.commit
          /\ pc' = "mkdir"
          /\ err' = err
     ELSE /\ \E left \in BOOLEAN :
               tmp' = IF left THEN Put(tmp, TEMP_DIR, Stale) ELSE Drop(tmp, TEMP_DIR)
          /\ commit' = commit
          /\ Throw("clone failed")
  /\ UNCHANGED <<script, upstream, fs, clock, runs, dryRun, content, visits, i, results,
                 synced, failed, exitCode, printed, fetched, wfail, fs0, prev,
                 logged>>
  /\ UNCHANGED other

\* main: mkdir(RESOURCES_DIR, {recursive: true}) unless --dry-run; the fastmcp
\* script calls it only when the directory does not exist
MkdirResources ==
  /\ pc = "mkdir"
  /\ script \in CloneScripts
  /\ IF dryRun \/ (script = "fastmcp" /\ <<>> \in fs.dirs)
     THEN /\ pc' = "copy"
          /\ UNCHANGED <<fs, err, wfail>>
     ELSE \E ok \in BOOLEAN :
            IF ok
            THEN /\ fs' = [fs EXCEPT !.dirs = @ \cup {<<>>}]
                 /\ pc' = "copy"
                 /\ UNCHANGED <<err, wfail>>
            ELSE /\ wfail' = TRUE
                 /\ Throw("mkdir failed")
                 /\ fs' = fs
  /\ UNCHANGED <<script, upstream, tmp, clock, runs, dryRun, commit, content, visits, i,
                 results, synced, failed, exitCode, printed, fetched, fs0, prev,
                 logged>>
  /\ UNCHANGED other

\* copyDocs: the source directory is looked up and the walk starts
CopyDocs ==
  /\ pc = "copy"
  /\ script \in CloneScripts
  /\ IF TEMP_DIR \notin DOMAIN tmp \/ ~tmp[TEMP_DIR].hasSource
     THEN /\ Throw("source directory not found")
          /\ visits' = visits
     ELSE /\ visits' = IF script = "fastmcp"
                       THEN ProcessDirFastmcp(tmp[TEMP_DIR].entries, <<>>)
                       ELSE ProcessDirGithub(tmp[TEMP_DIR].entries, <<>>)
          /\ pc' = "walk"
          /\ err' = err
  /\ i' = 1
  /\ UNCHANGED <<script, upstream, fs, tmp, clock, runs, dryRun, commit, content, results,
                 synced, failed, exitCode, printed, fetched, wfail, fs0, prev,
                 logged>>
  /\ UNCHANGED other

\* fault: the dry run reports the source path of the file, not its output name
ResultSourcePath(v, dry) ==
  [path |-> IF dry THEN Join(v.relPath, v.name) ELSE OutputNameFastmcp(v.relPath, v.name),
   title |-> ExtractTitle(v.content, StripMdExt(v.name)),
   status |-> IF dry THEN "skipped" ELSE "created"]

\* fastmcp: the result pushed for a file, in a dry run and in a real one
ResultFastmcp(v, dry) ==
  [path |-> OutputNameFastmcp(v.relPath, v.name),
   title |-> ExtractTitle(v.content, StripMdExt(v.name)),
   status |-> IF dry THEN "skipped" ELSE "created"]

\* fastmcp processDir, one file: read it, then report it or copy it
CopyDocFastmcp ==
  /\ pc = "walk"
  /\ script = "fastmcp"
  /\ i <= Len(visits)
  /\ LET v == visits[i]
         outputName == OutputNameFastmcp(v.relPath, v.name)
     IN  IF ~v.ok \/ TEMP_DIR \notin DOMAIN tmp
         THEN /\ Throw("read failed")
              /\ UNCHANGED <<fs, logged, results, i, wfail>>
         ELSE IF dryRun
         THEN /\ results' = Append(results, ResultFastmcp(v, TRUE))
              /\ i' = i + 1
              /\ logged' = Append(logged, outputName)
              /\ UNCHANGED <<fs, err, pc, wfail>>
         ELSE \E ok \in BOOLEAN :
                IF ok /\ <<>> \in fs.dirs
                THEN /\ logged' = Append(logged, outputName)
                     /\ fs' = [fs EXCEPT !.files = Put(@, outputName, v.content)]
                     /\ results' = Append(results, ResultFastmcp(v, FALSE))
                     /\ i' = i + 1
                     /\ UNCHANGED <<err, pc, wfail>>
                ELSE /\ wfail' = TRUE
                     /\ Throw("copy failed")
                     /\ UNCHANGED <<fs, logged, results, i>>
  /\ UNCHANGED <<script, upstream, tmp, clock, runs, dryRun, commit, content, visits,
                 synced, failed, exitCode, printed, fetched, fs0, prev>>
  /\ UNCHANGED other

\* sync-github and langgraph processDir, one file
CopyDocGithub ==
  /\ pc = "walk"
  /\ script \in {"github", "langgraph"}
  /\ i <= Len(visits)
  /\ LET v == visits[i]
         outputRelPath == OutputRelPath(v.relPath, v.name)
         r == [path |-> outputRelPath, size |-> Len(v.content)]
     IN  IF ~v.ok \/ TEMP_DIR \notin DOMAIN tmp
         THEN /\ Throw("read failed")
              /\ UNCHANGED <<fs, logged, results, i, wfail>>
         ELSE IF dryRun
         THEN /\ results' = Append(results, r)
              /\ i' = i + 1
              /\ logged' = Append(logged, outputRelPath)
              /\ UNCHANGED <<fs, err, pc, wfail>>
         ELSE \E ok \in BOOLEAN :
                IF ok
                THEN /\ logged' = Append(logged, outputRelPath)
                     /\ fs' = [fs EXCEPT !.dirs = @ \cup Ancestors(v.relPath),
                                         !.files = Put(@, outputRelPath, v.content)]
                     /\ results' = Append(results, r)
                     /\ i' = i + 1
                     /\ UNCHANGED <<err, pc, wfail>>
                ELSE /\ wfail' = TRUE
                     /\ Throw("write failed")
                     /\ UNCHANGED <<fs, logged, results, i>>
  /\ UNCHANGED <<script, upstream, tmp, clock, runs, dryRun, commit, content, visits,
                 synced, failed, exitCode, printed, fetched, fs0, prev>>
  /\ UNCHANGED other

\* results.map((r) => r.path)
Paths(rs) == [k \in 1..Len(rs) |-> rs[k].path]

\* results.filter((r) => r.status !== "skipped").length
NotSkipped(rs) == Cardinality({k \in 1..Len(rs) : rs[k].status # "skipped"})

\* fastmcp main: if (!dryRun) writeManifest(commit, results)
WritesManifestFastmcp == ~dryRun

\* fastmcp: writeManifest(commit, results) unless --dry-run, then the summary
WriteManifestFastmcp ==
  /\ pc = "walk"
  /\ script = "fastmcp"
  /\ i > Len(visits)
  /\ IF ~WritesManifestFastmcp
     THEN /\ pc' = "finally"
          /\ UNCHANGED <<fs, err, wfail>>
     ELSE \E ok \in BOOLEAN :
            IF ok /\ <<>> \in fs.dirs
            THEN /\ fs' = [fs EXCEPT !.manifest =
                            <<[source |-> "REPO_URL", commit |-> commit,
                               syncedAt |-> clock, fileCount |-> NotSkipped(results),
                               files |-> Sort(Paths(results))]>>]
                 /\ pc' = "finally"
                 /\ UNCHANGED <<err, wfail>>
            ELSE /\ wfail' = TRUE
                 /\ Throw("manifest write failed")
                 /\ fs' = fs
  /\ UNCHANGED <<script, upstream, tmp, clock, runs, dryRun, commit, content, visits, i,
                 results, synced, failed, exitCode, printed, fetched, fs0, prev,
                 logged>>
  /\ UNCHANGED other

\* fault: writeManifest ignores its dryRun parameter
WritesManifestAlways == TRUE

\* sync-github, langgraph writeManifest: the file is written unless dryRun
WritesManifestGithub == ~dryRun

\* sync-github, langgraph: writeManifest(results, commitHash, dryRun), then the summary
WriteManifestGithub ==
  /\ pc = "walk"
  /\ script \in {"github", "langgraph"}
  /\ i > Len(visits)
  /\ IF ~WritesManifestGithub
     THEN /\ pc' = "finally"
          /\ UNCHANGED <<fs, err, wfail>>
     ELSE \E ok \in BOOLEAN :
            IF ok /\ <<>> \in fs.dirs
            THEN /\ fs' = [fs EXCEPT !.manifest =
                            <<[source |-> "REPO_URL", sourcePath |-> "SOURCE_PATH",
                               commit |-> commit, syncedAt |-> clock,
                               fileCount |-> Len(results),
                               files |-> Sort(Paths(results))]>>]
                 /\ pc' = "finally"
                 /\ UNCHANGED <<err, wfail>>
            ELSE /\ wfail' = TRUE
                 /\ Throw("manifest write failed")
                 /\ fs' = fs
  /\ UNCHANGED <<script, upstream, tmp, clock, runs, dryRun, commit, content, visits, i,
                 results, synced, failed, exitCode, printed, fetched, fs0, prev,
                 logged>>
  /\ UNCHANGED other

\* fault: cleanup() leaves the directory in place
CleanupNothing(t) == t

\* cleanup(): rm(TEMP_DIR, {recursive: true}) when it exists
Cleanup(t) == Drop(t, TEMP_DIR)

\* the finally block of main; without an error the process then ends with status 0
Finally ==
  /\ pc = "finally"
  /\ script \in CloneScripts
  /\ tmp' = Cleanup(tmp)
  /\ pc' = IF err = NoErr THEN "done" ELSE "catch"
  /\ exitCode' = 0
  /\ UNCHANGED <<script, upstream, fs, clock, runs, dryRun, commit, content, visits, i,
                 results, synced, failed, err, printed, fetched, wfail, fs0, prev,
                 logged>>
  /\ UNCHANGED other

\* the status the process ends with after main has thrown:
\* process.exit(1), or main().catch(console.error) and a normal end
CatchExitCode == IF script \in {"fastmcp", "xai", "llms"} THEN 1 ELSE 0

\* main().catch(...) and the catch block of main: the error is printed
MainCatch ==
  /\ pc = "catch"
  /\ printed' = TRUE
  /\ tmp' = IF script = "fastmcp" THEN Cleanup(tmp) ELSE tmp
  /\ exitCode' = CatchExitCode
  /\ pc' = "done"
  /\ UNCHANGED <<script, upstream, fs, clock, runs, dryRun, commit, content, visits, i,
                 results, synced, failed, err, fetched, wfail, fs0, prev,
                 logged>>
  /\ UNCHANGED other

(***************************************************************************)
(* The llms.txt scripts.                                                   *)
(***************************************************************************)
\* fetchLlmsTxt(): the helper or the fetch fails, or the blob is returned
FetchLlmsTxt ==
  /\ pc = "fetch"
  /\ script \in LlmsScripts
  /\ IF upstream.fetchOk
     THEN /\ content' = upstream.blob
          /\ pc' = "parse"
          /\ err' = err
     ELSE /\ Throw("failed to fetch llms.txt")
          /\ content' = content
  /\ UNCHANGED <<script, upstream, fs, tmp, clock, runs, dryRun, commit, visits, i, results,
                 synced, failed, exitCode, printed, fetched, wfail, fs0, prev,
                 logged>>
  /\ UNCHANGED other

\* syncDocs: parseLlmsTxt(content), then mkdir(RESOURCES_DIR) unless --dry-run
ParseDocs ==
  /\ pc = "parse"
  /\ script \in LlmsScripts
  /\ visits' = ParseLlmsTxt(content, script = "xai")
  /\ i' = 1
  /\ IF dryRun \/ <<>> \in fs.dirs
     THEN /\ pc' = "write"
          /\ UNCHANGED <<fs, err, wfail>>
     ELSE \E ok \in BOOLEAN :
            IF ok
            THEN /\ fs' = [fs EXCEPT !.dirs = @ \cup {<<>>}]
                 /\ pc' = "write"
                 /\ UNCHANGED <<err, wfail>>
            ELSE /\ wfail' = TRUE
                 /\ Throw("mkdir failed")
                 /\ fs' = fs
  /\ UNCHANGED <<script, upstream, tmp, clock, runs, dryRun, commit, content, results,
                 synced, failed, exitCode, printed, fetched, fs0, prev,
                 logged>>
  /\ UNCHANGED other

\* fault: the frontmatter carries the time of the sync
ContentWithTime(path, body) ==
  <<"---\nsource: ", "BASE_DOC_URL", "/">> \o path \o <<"\nsynced: ", clock, "\n---\n\n">> \o body

\* the document with its frontmatter; the fixed parts are single tokens
ContentWithMeta(path, body) ==
  <<"---\nsource: ", "BASE_DOC_URL", "/">> \o path \o <<"\n---\n\n">> \o body

\* syncDocs, one document: report it or write it
WriteDoc ==
  /\ pc = "write"
  /\ script \in LlmsScripts
  /\ i <= Len(visits)
  /\ LET doc == visits[i]
         filename == PathToFilename(doc.path)
         title == ExtractTitle(doc.content, PathTitle(doc.path))
     IN  IF dryRun
         THEN /\ results' = Append(results,
                              [path |-> filename, title |-> title, status |-> "skipped"])
              /\ i' = i + 1
              /\ logged' = Append(logged, filename)
              /\ UNCHANGED <<fs, err, pc, wfail>>
         ELSE \E ok \in BOOLEAN :
                IF ok /\ <<>> \in fs.dirs
                THEN /\ logged' = Append(logged, filename)
                     /\ fs' = [fs EXCEPT !.files =
                                 Put(@, filename, ContentWithMeta(doc.path, doc.content))]
                     /\ results' = Append(results,
                              [path |-> filename, title |-> title, status |-> "created"])
                     /\ i' = i + 1
                     /\ UNCHANGED <<err, pc, wfail>>
                ELSE /\ wfail' = TRUE
                     /\ Throw("write failed")
                     /\ UNCHANGED <<fs, logged, results, i>>
  /\ UNCHANGED <<script, upstream, tmp, clock, runs, dryRun, commit, content, visits,
                 synced, failed, exitCode, printed, fetched, fs0, prev>>
  /\ UNCHANGED other

\* fault: the manifest is written only when there is a result
WritesManifestIfAny == ~dryRun /\ Len(results) > 0

\* llms.txt main: if (!dryRun) writeManifest(results)
WritesManifestLlms == ~dryRun

\* main: writeManifest(results) unless --dry-run, then the summary and the end
WriteManifestLlms ==
  /\ pc = "write"
  /\ script \in LlmsScripts
  /\ i > Len(visits)
  /\ IF ~WritesManifestLlms
     THEN /\ pc' = "done"
          /\ UNCHANGED <<fs, err, wfail>>
     ELSE \E ok \in BOOLEAN :
            IF ok /\ <<>> \in fs.dirs
            THEN /\ fs' = [fs EXCEPT !.manifest =
                            <<[source |-> "LLMS_TXT_URL", syncedAt |-> clock,
                               fileCount |-> NotSkipped(results),
                               files |-> Sort(Paths(results))]>>]
                 /\ pc' = "done"
                 /\ UNCHANGED <<err, wfail>>
            ELSE /\ wfail' = TRUE
                 /\ Throw("manifest write failed")
                 /\ fs' = fs
  /\ exitCode' = 0
  /\ UNCHANGED <<script, upstream, tmp, clock, runs, dryRun, commit, content, visits, i,
                 results, synced, failed, printed, fetched, fs0, prev,
                 logged>>
  /\ UNCHANGED other

(***************************************************************************)
(* The direct-fetch template.                                              *)
(***************************************************************************)
\* hashContent(content): the digest stands for the content it was taken of
HashContent(body) == <<"sha256", body>>

\* fault: the try block is around the loop, a failure ends the loop
LoopAbort(k, n, threw) == IF threw THEN n + 1 ELSE k + 1

\* fault: the try block retries the entry that failed
LoopRetry(k, n, threw) == IF threw THEN k ELSE k + 1

\* for (const entry of list) { try { ... } catch { failed++ } }: the index of the
\* entry handled after entry k of n, whether or not the body threw
LoopNext(k, n, threw) == k + 1

\* one turn of the loop of main: fetchDoc(path), then report or write
SyncPath ==
  /\ pc = "loop"
  /\ script = "direct"
  /\ i <= Len(DOC_PATHS)
  /\ fetched' = Append(fetched, i)
  /\ LET path == DOC_PATHS[i]
         response == upstream[i]
         r == [path |-> path, hash |-> HashContent(response.body),
               size |-> Len(response.body)]
     IN  IF response.status # "ok"
         THEN /\ failed' = failed + 1
              /\ i' = LoopNext(i, Len(DOC_PATHS), TRUE)
              /\ UNCHANGED <<fs, logged, results, synced, wfail>>
         ELSE IF dryRun
         THEN /\ results' = Append(results, r)
              /\ synced' = synced + 1
              /\ i' = LoopNext(i, Len(DOC_PATHS), FALSE)
              /\ logged' = Append(logged, path)
              /\ UNCHANGED <<fs, failed, wfail>>
         ELSE \E ok \in BOOLEAN :
                IF ok
                THEN /\ logged' = Append(logged, path)
                     /\ fs' = [fs EXCEPT !.dirs = @ \cup Ancestors(Dirname(path)),
                                         !.files = Put(@, path, response.body)]
                     /\ results' = Append(results, r)
                     /\ synced' = synced + 1
                     /\ i' = LoopNext(i, Len(DOC_PATHS), FALSE)
                     /\ UNCHANGED <<failed, wfail>>
                ELSE /\ wfail' = TRUE
                     /\ failed' = failed + 1
                     /\ i' = LoopNext(i, Len(DOC_PATHS), TRUE)
                     /\ UNCHANGED <<fs, logged, results, synced>>
  /\ UNCHANGED <<script, upstream, tmp, clock, runs, dryRun, pc, commit, content, visits,
                 err, exitCode, printed, fs0, prev>>
  /\ UNCHANGED other

\* results.map((r) => ({path: r.path, hash: r.hash}))
PathHashes(rs) == [k \in 1..Len(rs) |-> [path |-> rs[k].path, hash |-> rs[k].hash]]

\* direct-fetch main: if (!dryRun && results.length > 0)
WritesManifestDirect == ~dryRun /\ Len(results) > 0

\* main after the loop: the manifest when there is a result and no --dry-run
WriteManifestDirect ==
  /\ pc = "loop"
  /\ script = "direct"
  /\ i > Len(DOC_PATHS)
  /\ IF ~WritesManifestDirect
     THEN /\ pc' = "done"
          /\ UNCHANGED <<fs, err, wfail>>
     ELSE \E ok \in BOOLEAN :
            IF ok
            THEN /\ fs' = [fs EXCEPT !.manifest =
                            <<[source |-> "BASE_URL", syncedAt |-> clock,
                               fileCount |-> Len(results),
                               files |-> PathHashes(results)]>>]
                 /\ pc' = "done"
                 /\ UNCHANGED <<err, wfail>>
            ELSE /\ wfail' = TRUE
                 /\ Throw("manifest write failed")
                 /\ fs' = fs
  /\ exitCode' = 0
  /\ UNCHANGED <<script, upstream, tmp, clock, runs, dryRun, commit, content, visits, i,
                 results, synced, failed, printed, fetched, fs0, prev,
                 logged>>
  /\ UNCHANGED other

(***************************************************************************)
(* The HTML-scrape template.                                               *)
(***************************************************************************)
Sel(kind, v) == [kind |-> kind, v |-> v]

CONTENT_SELECTORS ==
  << Sel("tag", "article"), Sel("role", "main"), Sel("tag", "main"),
     Sel("class", <<"c", "o", "n", "t", "e", "n", "t">>), Sel("class", <<"d", "o", "c", "u", "m", "e", "n", "t", "a", "t", "i", "o", "n">>) >>

REMOVE_SELECTORS ==
  << Sel("tag", "nav"), Sel("tag", "header"), Sel("tag", "footer"), Sel("tag", "script"),
     Sel("tag", "style"), Sel("class", <<"s", "i", "d", "e", "b", "a", "r">>), Sel("class", <<"n", "a", "v", "i", "g", "a", "t", "i", "o", "n">>),
     Sel("role", "navigation") >>

RECURSIVE ClassTokens(_)
\* the class names of a class attribute
ClassTokens(cls) ==
  IF TrimLeft(cls) = <<>> THEN {}
  ELSE LET c == TrimLeft(cls)
           W == {k \in 1..Len(c) : IsWs(c[k])}
           e == IF W = {} THEN Len(c) ELSE Min(W) - 1
       IN  {SubSeq(c, 1, e)} \cup ClassTokens(SubSeq(c, e + 1, Len(c)))

\* the element n matches the selector
Matches(n, sel) ==
  /\ n.tag # "#text"
  /\ CASE sel.kind = "tag" -> n.tag = sel.v
       [] sel.kind = "class" -> sel.v \in ClassTokens(n.cls)
       [] OTHER -> n.role = sel.v

RECURSIVE FirstMatch(_, _)
\* querySelector: the first element, in document order, among the trees nodes
\* that matches; <<>> for null
FirstMatch(nodes, sel) ==
  IF nodes = <<>> THEN <<>>
  ELSE IF Matches(Head(nodes), sel) THEN <<Head(nodes)>>
  ELSE IF FirstMatch(Head(nodes).kids, sel) # <<>> THEN FirstMatch(Head(nodes).kids, sel)
  ELSE FirstMatch(Tail(nodes), sel)

RECURSIVE FirstMatchAny(_, _)
\* the first element, in document order, that matches one of the selectors
FirstMatchAny(nodes, sels) ==
  IF nodes = <<>> THEN <<>>
  ELSE IF \E k \in 1..Len(sels) : Matches(Head(nodes), sels[k]) THEN <<Head(nodes)>>
  ELSE IF FirstMatchAny(Head(nodes).kids, sels) # <<>>
       THEN FirstMatchAny(Head(nodes).kids, sels)
  ELSE FirstMatchAny(Tail(nodes), sels)

\* fault: one query for all selectors at once, as querySelector("article, main")
FindContentCombined(document, sels) ==
  IF FirstMatchAny(<<document>>, sels) # <<>> THEN FirstMatchAny(<<document>>, sels)[1]
  ELSE FirstMatch(document.kids, Sel("tag", "body"))[1]

RECURSIVE FindContent(_, _)
\* the loop over CONTENT_SELECTORS, then the fallback to document.body
FindContent(document, sels) ==
  IF sels = <<>> THEN FirstMatch(document.kids, Sel("tag", "body"))[1]
  ELSE IF FirstMatch(<<document>>, Head(sels)) # <<>>
       THEN FirstMatch(<<document>>, Head(sels))[1]
  ELSE FindContent(document, Tail(sels))

RECURSIVE RemoveChildrenOnly(_, _)
\* fault: only the children of the root are examined, as with ":scope > nav"
RemoveChildrenOnly(kids, sel) ==
  IF kids = <<>> THEN <<>>
  ELSE (IF Matches(Head(kids), sel) THEN <<>> ELSE <<Head(kids)>>)
       \o RemoveChildrenOnly(Tail(kids), sel)

RECURSIVE RemoveMatching(_, _)
\* the children left after el.remove() on every descendant that matches sel
RemoveMatching(kids, sel) ==
  IF kids = <<>> THEN <<>>
  ELSE (IF Matches(Head(kids), sel) THEN <<>>
        ELSE <<[Head(kids) EXCEPT !.kids = RemoveMatching(@, sel)]>>)
       \o RemoveMatching(Tail(kids), sel)

RECURSIVE RemoveUnwanted(_, _)
\* the loop over REMOVE_SELECTORS
RemoveUnwanted(article, sels) ==
  IF sels = <<>> THEN article
  ELSE RemoveUnwanted([article EXCEPT !.kids = RemoveMatching(@, Head(sels))], Tail(sels))

RECURSIVE TextContent(_)
\* node.textContent of the forest nodes
TextContent(nodes) ==
  IF nodes = <<>> THEN <<>>
  ELSE (IF Head(nodes).tag = "#text" THEN Head(nodes).text
        ELSE TextContent(Head(nodes).kids)) \o TextContent(Tail(nodes))

LanguageDash == <<"l", "a", "n", "g", "u", "a", "g", "e", "-">>

\* \w, over the characters of the model
IsWord(c) == c \notin {"\n", " ", "#", "-", ".", "/", "="}

RECURSIVE WordEnd(_, _)
\* the last index of the run of word characters of s that starts at j
WordEnd(s, j) == IF j <= Len(s) /\ IsWord(s[j]) THEN WordEnd(s, j + 1) ELSE j - 1

\* className.match(/language-(\w+)/)?.[1], <<>> when there is no match
ClassLanguage(cls) ==
  LET n == Len(LanguageDash)
      Q == {q \in 1..Len(cls) : /\ q + n <= Len(cls)
                                /\ SubSeq(cls, q, q + n - 1) = LanguageDash
                                /\ IsWord(cls[q + n])}
  IN  IF Q = {} THEN <<>> ELSE SubSeq(cls, Min(Q) + n, WordEnd(cls, Min(Q) + n))

\* fault: the data-lang attribute is looked at before the class
FencedBlockDataLangFirst(pre) ==
  LET code == FirstMatch(pre.kids, Sel("tag", "code"))
      lang == IF code = <<>> THEN <<>>
              ELSE IF code[1].dataLang # <<>> THEN code[1].dataLang
              ELSE ClassLanguage(code[1].cls)
      text == IF code # <<>> /\ TextContent(code[1].kids) # <<>>
              THEN TextContent(code[1].kids)
              ELSE TextContent(pre.kids)
  IN  [t |-> "fence", lang |-> lang, v |-> Trim(text)]

\* the codeBlocks rule for a <pre>: the fence language and the block text
FencedBlock(pre) ==
  LET code == FirstMatch(pre.kids, Sel("tag", "code"))
      lang == IF code = <<>> THEN <<>>
              ELSE IF ClassLanguage(code[1].cls) # <<>> THEN ClassLanguage(code[1].cls)
              ELSE code[1].dataLang
      text == IF code # <<>> /\ TextContent(code[1].kids) # <<>>
              THEN TextContent(code[1].kids)
              ELSE TextContent(pre.kids)
  IN  [t |-> "fence", lang |-> lang, v |-> Trim(text)]

RECURSIVE Turndown(_)
\* turndown.turndown(article.innerHTML): the blocks of the markdown; the
\* library's default rules are taken to keep the text of the other elements
Turndown(nodes) ==
  IF nodes = <<>> THEN <<>>
  ELSE LET n == Head(nodes)
           here == IF n.tag = "#text" THEN <<[t |-> "text", lang |-> <<>>, v |-> n.text]>>
                   ELSE IF n.tag = "pre" THEN <<FencedBlock(n)>>
                   ELSE IF n.tag = "code"
                   THEN <<[t |-> "code", lang |-> <<>>, v |-> TextContent(n.kids)]>>
                   ELSE Turndown(n.kids)
       IN  here \o Turndown(Tail(nodes))

\* fetchAndConvert(page) for a response whose text was read
Convert(page, document, now) ==
  [title |-> page.title, source |-> page.url, synced |-> now,
   markdown |-> Turndown(RemoveUnwanted(FindContent(document, CONTENT_SELECTORS),
                                        REMOVE_SELECTORS).kids)]

\* one turn of the loop of main: fetchAndConvert(page), then report or write
SyncPage ==
  /\ pc = "loop"
  /\ script = "html"
  /\ i <= Len(DOC_PAGES)
  /\ fetched' = Append(fetched, i)
  /\ LET page == DOC_PAGES[i]
         response == upstream[i]
     IN  IF response.status # "ok"
         THEN /\ failed' = failed + 1
              /\ i' = LoopNext(i, Len(DOC_PAGES), TRUE)
              /\ UNCHANGED <<fs, logged, synced, wfail>>
         ELSE IF dryRun
         THEN /\ synced' = synced + 1
              /\ i' = LoopNext(i, Len(DOC_PAGES), FALSE)
              /\ logged' = Append(logged, page.outputPath)
              /\ UNCHANGED <<fs, failed, wfail>>
         ELSE \E ok \in BOOLEAN :
                IF ok
                THEN /\ logged' = Append(logged, page.outputPath)
                     /\ fs' = [fs EXCEPT
                                 !.dirs = @ \cup Ancestors(Dirname(page.outputPath)),
                                 !.files = Put(@, page.outputPath,
                                               Convert(page, response.body, clock))]
                     /\ synced' = synced + 1
                     /\ i' = LoopNext(i, Len(DOC_PAGES), FALSE)
                     /\ UNCHANGED <<failed, wfail>>
                ELSE /\ wfail' = TRUE
                     /\ failed' = failed + 1
                     /\ i' = LoopNext(i, Len(DOC_PAGES), TRUE)
                     /\ UNCHANGED <<fs, logged, synced>>
  /\ UNCHANGED <<script, upstream, tmp, clock, runs, dryRun, pc, commit, content, visits,
                 results, err, exitCode, printed, fs0, prev>>
  /\ UNCHANGED other

\* main after the loop: the summary line, and the process ends
HtmlDone ==
  /\ pc = "loop"
  /\ script = "html"
  /\ i > Len(DOC_PAGES)
  /\ pc' = "done"
  /\ exitCode' = 0
  /\ UNCHANGED <<script, upstream, fs, tmp, clock, runs, dryRun, commit, content, visits, i,
                 results, synced, failed, err, printed, fetched, wfail, fs0, prev,
                 logged>>
  /\ UNCHANGED other

(***************************************************************************)
(* The specification.                                                      *)
(***************************************************************************)
Next ==
  \/ \E dry \in BOOLEAN : StartRun(dry)
  \/ CloneRepo
  \/ MkdirResources
  \/ CopyDocs
  \/ CopyDocFastmcp
  \/ CopyDocGithub
  \/ WriteManifestFastmcp
  \/ WriteManifestGithub
  \/ Finally
  \/ FetchLlmsTxt
  \/ ParseDocs
  \/ WriteDoc
  \/ WriteManifestLlms
  \/ SyncPath
  \/ WriteManifestDirect
  \/ SyncPage
  \/ HtmlDone
  \/ MainCatch

Spec == Init /\ [][Next]_vars

(***************************************************************************)
(* A second invocation of a repository-clone script, started with          *)
(* --dry-run while the first is running.  It shares /tmp with the first.   *)
(***************************************************************************)
\* TEMP_DIR of the second invocation
TEMP_DIR2 ==
  CASE script = "fastmcp" -> <<"/tmp/fastmcp-docs-sync", 0>>
    [] script = "langgraph" -> <<"/tmp/langgraph-docs-sync", 0>>
    [] OTHER -> <<"/tmp/docs-sync-", clock2>>

\* the current run has cloned and has not reached its cleanup
HoldsClone == script \in CloneScripts /\ pc \in {"mkdir", "copy", "walk"}

\* the module is loaded: TEMP_DIR is fixed, in the template with Date.now() in
\* it, the millisecond the first invocation started in or a later one
OtherStart ==
  /\ script \in CloneScripts
  /\ runs > 0
  /\ pc2 = "idle"
  /\ pc2' = "clone"
  /\ clock2' \in {clock, clock + 1}
  /\ UNCHANGED <<script, upstream, fs, tmp, clock, runs, dryRun, pc, commit, content,
                 visits, i, results, synced, failed, err, exitCode, printed, fetched,
                 wfail, logged, fs0, prev, intruded>>
  /\ UNCHANGED call

\* cloneRepo of the second invocation: rm(TEMP_DIR) when it exists, git clone
OtherCloneRepo ==
  /\ pc2 = "clone"
  /\ IF upstream.cloneOk
     THEN /\ tmp' = Put(tmp, TEMP_DIR2, upstream)
          /\ pc2' = "copy"
     ELSE /\ \E left \in BOOLEAN :
               tmp' = IF left THEN Put(tmp, TEMP_DIR2, Stale) ELSE Drop(tmp, TEMP_DIR2)
          /\ pc2' = "finally"
  /\ intruded' = (intruded \/ (HoldsClone /\ TEMP_DIR2 = TEMP_DIR))
  /\ UNCHANGED <<script, upstream, fs, clock, runs, dryRun, pc, commit, content,
                 visits, i, results, synced, failed, err, exitCode, printed, fetched,
                 wfail, logged, fs0, prev, clock2>>
  /\ UNCHANGED call

\* copyDocs(true) of the second invocation: it reads its clone and writes nothing
OtherCopyDocs ==
  /\ pc2 = "copy"
  /\ pc2' = "finally"
  /\ UNCHANGED <<script, upstream, fs, tmp, clock, runs, dryRun, pc, commit, content,
                 visits, i, results, synced, failed, err, exitCode, printed, fetched,
                 wfail, logged, fs0, prev, clock2, intruded>>
  /\ UNCHANGED call

\* the finally block of the second invocation: cleanup()
OtherFinally ==
  /\ pc2 = "finally"
  /\ tmp' = Drop(tmp, TEMP_DIR2)
  /\ pc2' = "done"
  /\ intruded' = (intruded \/ (HoldsClone /\ TEMP_DIR2 = TEMP_DIR))
  /\ UNCHANGED <<script, upstream, fs, clock, runs, dryRun, pc, commit, content,
                 visits, i, results, synced, failed, err, exitCode, printed, fetched,
                 wfail, logged, fs0, prev, clock2>>
  /\ UNCHANGED call

NextConcurrent ==
  \/ Next
  \/ OtherStart
  \/ OtherCloneRepo
  \/ OtherCopyDocs
  \/ OtherFinally

SpecConcurrent == Init /\ [][NextConcurrent]_vars

(***************************************************************************)
(* The pure functions of the scripts, each called on its own argument.     *)
(***************************************************************************)
\* pieces of a logical path
PathTokens ==
  { <<"d", "o", "c", "s", "/">>, <<"a">>, <<"/">>, <<"-">>,
    <<".", "m", "d">>, <<".", "m", "d", "x">> }

RECURSIVE PathsOf(_)
\* the concatenations of at most n pieces
PathsOf(n) ==
  IF n = 0 THEN {<<>>} ELSE {<<>>} \cup {t \o q : t \in PathTokens, q \in PathsOf(n - 1)}

\* p is the path of a file below the source directory: no empty segment
IsTreePath(p) ==
  /\ p # <<>> /\ p[1] # "/" /\ p[Len(p)] # "/"
  /\ \A k \in 1..(Len(p) - 1) : ~(p[k] = "/" /\ p[k + 1] = "/")

\* the files processDir handles: .md and .mdx files
DocFiles == {p \in PathsOf(MaxPathTokens) : IsTreePath(p) /\ IsDoc(LastSegment(p))}

\* further pieces of an llms.txt blob: body text with ===/ in the middle of a
\* line, as a delimiter and as plain text, and a delimiter over two lines
LinePool ==
  { <<"z", " ", "=", "=", "=", "/", "b", "=", "=", "=", "\n", "w", "\n">>,
    <<"z", " ", "=", "=", "=", "/", " ", "w", "\n">>,
    <<"=", "=", "=", "/", "a", "\n", "b", "=", "=", "=", "\n", "x", "\n">> }

RECURSIVE StringsOf(_, _)
\* the concatenations of at most n of the pieces
StringsOf(pieces, n) ==
  IF n = 0 THEN {<<>>}
  ELSE {<<>>} \cup {p \o b : p \in pieces, b \in StringsOf(pieces, n - 1)}

\* elements a page is made of: one for each content selector and one that no
\* selector matches, each with a text of its own
Blocks ==
  LET Leaf(tag, cls, role) ==
        {El(tag, cls, role, <<>>, <<Text(t)>>) : t \in {<<"x">>, <<"y">>}}
      leaves ==
        Leaf("article", <<>>, "") \cup Leaf("div", <<>>, "main") \cup Leaf("main", <<>>, "")
        \cup Leaf("div", <<"c", "o", "n", "t", "e", "n", "t">>, "")
        \cup Leaf("div", <<"x", " ", "d", "o", "c", "u", "m", "e", "n", "t", "a", "t", "i", "o", "n">>, "")
        \cup Leaf("p", <<>>, "")
  IN  leaves \cup {El("div", <<>>, "", <<>>, <<l>>) : l \in leaves}

RECURSIVE Forests(_)
\* the sequences of at most n elements
Forests(n) ==
  IF n = 0 THEN {<<>>} ELSE {<<>>} \cup {<<b>> \o f : b \in Blocks, f \in Forests(n - 1)}

\* the documents parseHTML returns for pages made of these elements
Pages ==
  {El("html", <<>>, "", <<>>, <<El("body", <<>>, "", <<>>, f)>>) : f \in Forests(MaxElements)}

\* pages with elements of the remove list, plain, nested in one another, and
\* below elements that stay
ChromePages ==
  LET E(tag, cls, role, kids) == El(tag, cls, role, <<>>, kids)
      nav == E("nav", <<>>, "", <<Text(<<"n">>)>>)
      js == E("script", <<>>, "", <<Text(<<"s">>)>>)
      para == E("p", <<>>, "", <<Text(<<"x">>)>>)
      blocks ==
        { nav, para,
          E("header", <<>>, "", <<nav>>),
          E("div", <<"s", "i", "d", "e", "b", "a", "r">>, "", <<js, para>>),
          E("div", <<>>, "", <<E("footer", <<>>, "", <<para>>), para>>),
          E("div", <<>>, "", <<E("div", <<>>, "", <<E("style", <<>>, "", <<>>)>>)>>),
          E("ul", <<"n", "a", "v", "i", "g", "a", "t", "i", "o", "n">>, "navigation", <<nav>>),
          E("article", <<>>, "", <<E("header", <<>>, "", <<nav>>), para>>),
          E("p", <<>>, "", <<E("span", <<>>, "navigation", <<Text(<<"y">>)>>)>>) }
      RECURSIVE Rows(_)
      Rows(n) == IF n = 0 THEN {<<>>}
                 ELSE {<<>>} \cup {<<b>> \o f : b \in blocks, f \in Rows(n - 1)}
  IN  {E("html", <<>>, "", <<E("body", <<>>, "", f)>>) : f \in Rows(MaxElements)}

\* <pre> elements: without <code>, and with a <code>, direct or nested, of every
\* class and data-lang attribute
PreNodes ==
  LET classes == { <<>>, <<"l", "a", "n", "g", "u", "a", "g", "e", "-", "p", "y">>,
                   <<"h", "l", "j", "s", " ", "l", "a", "n", "g", "u", "a", "g", "e", "-", "j", "s">>,
                   <<"l", "a", "n", "g", "u", "a", "g", "e", "-">>, <<"h", "l", "j", "s">> }
      codes == {El("code", c, "", d, <<Text(<<"x", "\n">>)>>) :
                  c \in classes, d \in {<<>>, <<"r", "b">>}}
  IN  {El("pre", <<>>, "", <<>>, <<Text(<<"t">>)>>),
       El("pre", <<"l", "a", "n", "g", "u", "a", "g", "e", "-", "c">>, "", <<"g", "o">>, <<Text(<<"t">>)>>)}
      \cup {El("pre", <<>>, "", <<>>, <<c>>) : c \in codes}
      \cup {El("pre", <<>>, "", <<>>, <<El("span", <<>>, "", <<>>, <<c>>)>>) : c \in codes}

\* source directories with skipped directories and documents at several depths,
\* a skipped file, a file that is no document and a symbolic link
Trees ==
  LET md(c) == File(<<c, ".", "m", "d">>, <<"x">>, TRUE)
      assets == <<"a", "s", "s", "e", "t", "s">>
      pool ==
        { md("a"), File(<<"b", ".", "m", "d", "x">>, <<"x">>, TRUE),
          File(<<"n", ".", "t", "x", "t">>, <<"x">>, TRUE),
          File(<<".", "c", "c", "i", "g", "n", "o", "r", "e">>, <<"x">>, TRUE),
          [kind |-> "link", name |-> <<"l", ".", "m", "d">>, content |-> <<>>,
           entries |-> <<>>, ok |-> TRUE],
          Dir(<<"s", "u", "b">>, <<md("c"), Dir(assets, <<md("d")>>)>>),
          Dir(assets, <<md("e"), Dir(<<"s", "u", "b">>, <<md("f")>>)>>),
          Dir(<<"t", "o", "p">>, <<Dir(<<"m", "i", "d">>, <<Dir(<<"l", "o", "w">>, <<md("g")>>)>>)>>),
          Dir(<<"x", ".", "m", "d">>, <<md("h")>>) }
  IN  Arrangements(pool, MaxEntries)

\* the arguments a function is called on
Args(f) ==
  CASE f = "pathToFilename" -> PathsOf(MaxPathTokens)
    [] f \in {"outputName", "outputRelPath"} -> DocFiles
    [] f \in {"parseLlmsTxt", "parseLlmsTxtMap"} ->
         StringsOf(SectionPool \cup LinePool, MaxSections)
    [] f = "removeUnwanted" -> DomPool \cup ChromePages
    [] f = "fencedBlock" -> PreNodes
    [] f = "processDir" -> Trees
    [] OTHER -> DomPool \cup Pages

Functions ==
  {"pathToFilename", "outputName", "outputRelPath", "parseLlmsTxt", "parseLlmsTxtMap",
   "findContent", "removeUnwanted", "fencedBlock", "processDir"}

\* no run is going on; a function is about to be called on an argument
InitCall ==
  /\ script = "xai"
  /\ upstream = [fetchOk |-> FALSE, blob |-> <<>>]
  /\ fs = EmptyDir /\ fs0 = EmptyDir /\ tmp = <<>>
  /\ clock = 0 /\ runs = 0 /\ dryRun = FALSE /\ pc = "idle"
  /\ commit = "" /\ content = <<>> /\ visits = <<>> /\ i = 1
  /\ results = <<>> /\ synced = 0 /\ failed = 0
  /\ err = NoErr /\ exitCode = 0 /\ printed = FALSE
  /\ fetched = <<>> /\ wfail = FALSE /\ logged = <<>> /\ prev = <<>>
  /\ pc2 = "idle" /\ clock2 = 0 /\ intruded = FALSE
  /\ fn \in Functions
  /\ arg \in Args(fn)
  /\ ret = <<>>
  /\ again = <<>>

\* the variables of the runs
run ==
  <<script, upstream, fs, tmp, clock, runs, dryRun, pc, commit, content, visits, i,
    results, synced, failed, err, exitCode, printed, fetched, wfail, logged, fs0,
    prev, pc2, clock2, intruded>>

\* pathToFilename(docPath)
CallPathToFilename ==
  /\ fn = "pathToFilename" /\ ret = <<>>
  /\ ret' = <<PathToFilename(arg)>>
  /\ UNCHANGED <<run, fn, arg, again>>

\* pathToFilename("docs/" + filename), for the filename that was returned
CallPathToFilenameAgain ==
  /\ fn = "pathToFilename" /\ ret # <<>> /\ again = <<>>
  /\ again' = <<PathToFilename(DocsSlash \o ret[1])>>
  /\ UNCHANGED <<run, fn, arg, ret>>

\* fastmcp processDir: outputName of the file arg
CallOutputName ==
  /\ fn = "outputName" /\ ret = <<>>
  /\ ret' = <<OutputNameFastmcp(Dirname(arg), LastSegment(arg))>>
  /\ UNCHANGED <<run, fn, arg, again>>

\* sync-github processDir: outputRelPath of the file arg
CallOutputRelPath ==
  /\ fn = "outputRelPath" /\ ret = <<>>
  /\ ret' = <<OutputRelPath(Dirname(arg), LastSegment(arg))>>
  /\ UNCHANGED <<run, fn, arg, again>>

\* parseLlmsTxt(content), with the Map of the xai script or the array of the templates
CallParseLlmsTxt ==
  /\ fn \in {"parseLlmsTxt", "parseLlmsTxtMap"} /\ ret = <<>>
  /\ ret' = <<ParseLlmsTxt(arg, fn = "parseLlmsTxtMap")>>
  /\ UNCHANGED <<run, fn, arg, again>>

\* fetchAndConvert: the content root of the document arg
CallFindContent ==
  /\ fn = "findContent" /\ ret = <<>>
  /\ ret' = <<FindContent(arg, CONTENT_SELECTORS)>>
  /\ UNCHANGED <<run, fn, arg, again>>

\* fetchAndConvert: the content root of the document arg after the removal loop
CallRemoveUnwanted ==
  /\ fn = "removeUnwanted" /\ ret = <<>>
  /\ ret' = <<RemoveUnwanted(FindContent(arg, CONTENT_SELECTORS), REMOVE_SELECTORS)>>
  /\ UNCHANGED <<run, fn, arg, again>>

\* the replacement of the codeBlocks rule for the <pre> element arg
CallFencedBlock ==
  /\ fn = "fencedBlock" /\ ret = <<>>
  /\ ret' = <<FencedBlock(arg)>>
  /\ UNCHANGED <<run, fn, arg, again>>

\* copyDocs of the fastmcp script: processDir(sourceDir) on the tree arg
CallProcessDir ==
  /\ fn = "processDir" /\ ret = <<>>
  /\ ret' = <<ProcessDirFastmcp(arg, <<>>)>>
  /\ UNCHANGED <<run, fn, arg, again>>

NextCall ==
  \/ CallPathToFilename
  \/ CallPathToFilenameAgain
  \/ CallOutputName
  \/ CallOutputRelPath
  \/ CallParseLlmsTxt
  \/ CallFindContent
  \/ CallRemoveUnwanted
  \/ CallFencedBlock
  \/ CallProcessDir

SpecCall == InitCall /\ [][NextCall]_vars

(***************************************************************************)
(* Runs against an upstream that changes between them.                     *)
(***************************************************************************)
\* the upstream u at a later time. Documents were taken away from it: an entry
\* of the repository, the end of the llms.txt blob, a page of the site; or the
\* repository or its source path is gone, or llms.txt cannot be fetched
Later(u) ==
  IF script \in CloneScripts
  THEN IF ~u.hasSource THEN {}
       ELSE {[u EXCEPT !.entries = SubSeq(@, 1, k - 1) \o SubSeq(@, k + 1, Len(@)),
                       !.commit = "c2"] : k \in 1..Len(u.entries)}
            \cup {r \in Repos : ~r.hasSource}
  ELSE IF script \in LlmsScripts
  THEN IF ~u.fetchOk THEN {}
       ELSE {[u EXCEPT !.blob = b] :
               b \in {b \in Blobs(MaxSections) : b # u.blob /\ StartsWith(u.blob, b)}}
            \cup {l \in LlmsSites : ~l.fetchOk}
  ELSE {[u EXCEPT ![k] = [status |-> "http404", body |-> <<>>]] :
          k \in {k \in DOMAIN u : u[k].status = "ok"}}

\* between two runs the upstream changes
UpstreamChanges ==
  /\ pc = "done"
  /\ runs < MaxRuns
  /\ upstream' \in Later(upstream)
  /\ UNCHANGED <<script, fs, tmp, clock, runs, dryRun, pc, commit, content, visits, i,
                 results, synced, failed, err, exitCode, printed, fetched, wfail,
                 logged, fs0, prev>>
  /\ UNCHANGED other

NextChanging == Next \/ UpstreamChanges

SpecChanging == Init /\ [][NextChanging]_vars

(***************************************************************************)
(* Properties.                                                             *)
(***************************************************************************)
\* the run has ended
Ended == pc = "done"

\* the results without their status field
WithoutStatus(rs) ==
  [k \in 1..Len(rs) |-> [f \in DOMAIN rs[k] \ {"status"} |-> rs[k][f]]]

\* every result that has a status has the status st
AllStatus(rs, st) ==
  \A k \in 1..Len(rs) : "status" \in DOMAIN rs[k] => rs[k].status = st

\* the output paths of the documents the current run has written, in order
Written == IF dryRun THEN <<>> ELSE logged

\* the elements of a sequence
Range(s) == {s[k] : k \in 1..Len(s)}

\* the output paths the manifest m lists
ManifestPaths(m) ==
  [k \in 1..Len(m.files) |-> IF script = "direct" THEN m.files[k].path ELSE m.files[k]]

\* s is in ascending order by code units
IsSorted(s) == \A a, b \in 1..Len(s) : a < b => ~StrLess(s[b], s[a])

\* the entries of s are entries of the list, in the order of the list
InListOrder(s, list) ==
  \A a, b \in 1..Len(s) :
    a < b => \E x, y \in 1..Len(list) : x < y /\ list[x] = s[a] /\ list[y] = s[b]

\* the manifest on disk was written by the current run
FreshManifest == fs.manifest # <<>> /\ fs.manifest[1].syncedAt = clock

\* the error is one of the systemic failures
Systemic ==
  err \in {"clone failed", "source directory not found", "failed to fetch llms.txt"}

\* the source document a visit stands for, and the output path it is mapped to
SourceOf(v) == IF script \in CloneScripts THEN Join(v.relPath, v.name) ELSE v.path

OutputOf(v) ==
  IF script = "fastmcp" THEN OutputNameFastmcp(v.relPath, v.name)
  ELSE IF script \in CloneScripts THEN OutputRelPath(v.relPath, v.name)
  ELSE PathToFilename(v.path)

\* C1: during and after a run with --dry-run the output resources directory,
\* its documents and its manifest.json, is exactly as it was when the run
\* started, in every script and whichever items succeed or fail.
DryRunWritesNothing == (runs > 0 /\ dryRun) => fs = fs0

\* C1: a dry run that reported documents has ended, over an output directory
\* that an earlier run had filled.
DryRunOverFilledDirectory ==
  /\ Ended /\ dryRun
  /\ fs0.files # <<>> /\ fs0.manifest # <<>>
  /\ Len(results) > 0

ScratchDirGone == (Ended /\ script \in CloneScripts) => TEMP_DIR \notin DOMAIN tmp

\* C3: a run that had cloned the repository ended on an error while a file was
\* read or copied, after it had copied another.
RunFailedAfterClone ==
  /\ Ended /\ script \in CloneScripts
  /\ commit # ""
  /\ err \in {"read failed", "copy failed", "write failed"}
  /\ Len(results) > 0

\* C4, as stated: a run that ended on a systemic failure has printed the error
\* and its process ended with a status other than 0.
SystemicFailureExitsNonZero == (Ended /\ Systemic) => (printed /\ exitCode # 0)

\* C5: in the direct-fetch and HTML-scrape scripts the entries fetched so far
\* are the entries 1, 2, ... of the list, each once and in order, up to the one
\* the loop is at; when the run has ended they are all the entries.
EveryEntryFetchedOnce ==
  script \in {"direct", "html"} =>
    /\ fetched = [k \in 1..Len(fetched) |-> k]
    /\ Len(fetched) = i - 1
    /\ Ended => Len(fetched) = (IF script = "direct" THEN Len(DOC_PATHS)
                                ELSE Len(DOC_PAGES))

\* C5: a run has ended in which the first entry failed and a later one was
\* synced.
LaterEntrySyncedAfterFailure ==
  /\ Ended /\ script \in {"direct", "html"}
  /\ upstream[1].status # "ok"
  /\ synced > 0

\* C6, as stated: a direct-fetch run that has ended has one result per
\* configured path.
OneResultPerPath == (Ended /\ script = "direct") => Len(results) = Len(DOC_PATHS)

\* C6, amended: a direct-fetch run that has ended has one result for each path
\* that was fetched with a 2xx status and, in a real run, written; a path whose
\* fetch or write failed has no result and is counted in failed; the results
\* carry no status.
OneResultPerSyncedPath ==
  (Ended /\ script = "direct") =>
    /\ Len(results) = synced
    /\ synced + failed = Len(DOC_PATHS)
    /\ InListOrder(Paths(results), DOC_PATHS)
    /\ \A k \in 1..Len(DOC_PATHS) :
         /\ upstream[k].status # "ok" => DOC_PATHS[k] \notin Range(Paths(results))
         /\ (upstream[k].status = "ok" /\ ~wfail) => DOC_PATHS[k] \in Range(Paths(results))
    /\ logged = Paths(results)
    /\ \A k \in 1..Len(results) : DOMAIN results[k] = {"path", "hash", "size"}

\* C6: a direct-fetch run has ended in which the second path failed with a
\* non-2xx status and the others were synced.
SecondPathFailed ==
  /\ Ended /\ script = "direct" /\ ~dryRun
  /\ upstream[2].status = "http404"
  /\ synced = Len(DOC_PATHS) - 1

\* C7, as stated: a real run of any script that ended without an error has
\* left a manifest that it wrote itself.
EveryRealRunWritesManifest == (Ended /\ ~dryRun /\ err = NoErr) => FreshManifest

\* C7, amended: a real run that ended without an error has written a fresh
\* manifest in the repository-clone and llms.txt scripts, also when it produced
\* no document; in the direct-fetch template only when it has a result, the
\* manifest staying as it was otherwise; the HTML-scrape template has none.
RealRunWritesManifestWhereImplemented ==
  /\ (Ended /\ ~dryRun /\ err = NoErr) =>
       CASE script \in CloneScripts \cup LlmsScripts -> FreshManifest
         [] script = "direct" ->
              IF Len(results) > 0 THEN FreshManifest ELSE fs.manifest = fs0.manifest
         [] OTHER -> TRUE
  /\ script = "html" => fs.manifest = <<>>

\* C7: a real run of an llms.txt script that found no document has ended
\* without an error, over a manifest an earlier run left.
EmptyRealRunOverOldManifest ==
  /\ Ended /\ ~dryRun /\ err = NoErr
  /\ script \in LlmsScripts
  /\ Len(results) = 0
  /\ fs0.manifest # <<>>

\* C8, as stated: the files list of the manifest on disk is in ascending order
\* of output path, in every script.
ManifestFilesSorted == fs.manifest # <<>> => IsSorted(ManifestPaths(fs.manifest[1]))

\* C8, amended: the files list is in ascending order of output path in the
\* repository-clone and llms.txt scripts; in the direct-fetch template it is in
\* the order of the configured path list.
ManifestFilesSortedOrInListOrder ==
  fs.manifest # <<>> =>
    IF script = "direct" THEN InListOrder(ManifestPaths(fs.manifest[1]), DOC_PATHS)
    ELSE IsSorted(ManifestPaths(fs.manifest[1]))

\* C8: a run has written its manifest after meeting its documents in an order
\* that is not the ascending one.
ManifestOfUnsortedResults ==
  /\ Ended /\ FreshManifest
  /\ script \in CloneScripts \cup LlmsScripts
  /\ ~IsSorted(Paths(results))

\* C9, as stated: after a real run that completed and wrote its manifest,
\* fileCount is the length of files, the listed paths are the documents the
\* run wrote, and no path is listed twice.
ManifestListsWrittenFiles ==
  (Ended /\ ~dryRun /\ err = NoErr /\ FreshManifest) =>
    LET m == fs.manifest[1]
        files == ManifestPaths(m)
    IN  /\ m.fileCount = Len(files)
        /\ Range(files) = Range(Written)
        /\ m.fileCount = Cardinality(Range(Written))
        /\ \A a, b \in 1..Len(files) : a # b => files[a] # files[b]

\* C10, as stated: no two different source documents of a run are mapped to
\* the same output path.
OutputPathUnique ==
  (script \in CloneScripts \cup LlmsScripts) =>
    \A a, b \in 1..Len(visits) :
      SourceOf(visits[a]) # SourceOf(visits[b]) => OutputOf(visits[a]) # OutputOf(visits[b])

\* the error was thrown while one document was read, copied or written
ItemError == err \in {"read failed", "copy failed", "write failed"}

\* C11, as stated: a run of a repository-clone or llms.txt script in which the
\* only failure, if any, was on one document has processed every document and,
\* unless it is a dry run, has written its manifest.
ItemFailureIsolated ==
  (Ended /\ script \in CloneScripts \cup LlmsScripts /\ (err = NoErr \/ ItemError)) =>
    /\ i > Len(visits)
    /\ ~dryRun => FreshManifest

\* a document file without the synced timestamp of its frontmatter
Timeless(doc) == IF script = "html" THEN [doc EXCEPT !.synced = 0] ELSE doc

\* the output directory d without the timestamps of its documents and manifest
WithoutTimestamps(d) ==
  [dirs |-> d.dirs,
   files |-> [q \in DOMAIN d.files |-> Timeless(d.files[q])],
   manifest |-> [k \in DOMAIN d.manifest |-> [d.manifest[k] EXCEPT !.syncedAt = 0]]]

\* C12: when a real run has ended after another real run against the same
\* upstream, no write having failed in either, the output directory has the
\* directories, files, document contents and manifest the first run left,
\* apart from the synced and syncedAt timestamps.
SecondRunChangesNothing ==
  (Ended /\ ~dryRun /\ prev # <<>> /\ ~prev[1].dryRun /\ ~wfail /\ ~prev[1].wfail) =>
    WithoutTimestamps(fs) = WithoutTimestamps(fs0)

\* C12: a second real run has ended that rewrote the documents and the
\* manifest of the first.
SecondRunRewroteDocuments ==
  /\ Ended /\ ~dryRun /\ prev # <<>> /\ ~prev[1].dryRun /\ ~wfail /\ ~prev[1].wfail
  /\ Len(logged) > 1
  /\ FreshManifest /\ fs0.manifest # <<>>

\* C13, as stated: while a run holds its clone, between its cloneRepo and its
\* cleanup, its scratch directory exists and no other invocation has removed
\* or replaced it, also when a second invocation runs concurrently.
ScratchDirPrivate == ~intruded /\ (HoldsClone => TEMP_DIR \in DOMAIN tmp)

\* a path mapper is being called, and has returned
Mappers == {"pathToFilename", "outputName", "outputRelPath"}

Mapped == fn \in Mappers /\ ret # <<>>

\* the name of the argument before its extension is dealt with: prefix
\* stripped and flattened as the mapper that is called does it
Flat ==
  CASE fn = "pathToFilename" -> CollapseDashes(SlashToDash(StripDocs(arg)))
    [] fn = "outputName" -> SlashToDash(arg)
    [] OTHER -> arg

\* b with exactly one .md extension: .mdx rewritten, .md kept, .md added otherwise
Forced(b) ==
  IF EndsWith(b, DotMdx) THEN SubSeq(b, 1, Len(b) - 1)
  ELSE IF EndsWith(b, DotMd) THEN b
  ELSE b \o DotMd

\* C14: for every path a mapper is called on, the filename returned ends in
\* .md; so does the filename returned for docs/ followed by that filename.
MapperEndsInMd ==
  /\ Mapped => EndsWith(ret[1], DotMd)
  /\ (fn \in Mappers /\ again # <<>>) => EndsWith(again[1], DotMd)

\* C14: pathToFilename has returned for a path of slashes and dashes only.
MappedPathWithoutName ==
  /\ fn = "pathToFilename" /\ ret # <<>>
  /\ arg # <<>> /\ \A k \in 1..Len(arg) : arg[k] \in {"/", "-"}

\* C15, as stated: the filename returned is the flattened path with exactly one
\* .md extension: .mdx rewritten to .md, .md kept, .md added when there is none.
MapperForcesOneExtension == Mapped => ret[1] = Forced(Flat)

\* C15, amended: the mappers of the clone scripts rewrite .mdx to .md and keep
\* .md; pathToFilename adds .md to the flattened path whatever it ends in, so
\* that a path in .md or .mdx gets a second extension.
MapperExtensionPerScript ==
  Mapped =>
    IF fn = "pathToFilename"
    THEN /\ ret[1] = Flat \o DotMd
         /\ EndsWith(arg, DotMd) => EndsWith(ret[1], DotMd \o DotMd)
         /\ EndsWith(arg, DotMdx) => EndsWith(ret[1], DotMdx \o DotMd)
    ELSE /\ ret[1] = Forced(Flat)
         /\ Len(ret[1]) <= Len(arg)

\* C15: the fastmcp mapper has returned for an .mdx file in a subdirectory.
MappedNestedMdx ==
  /\ fn = "outputName" /\ ret # <<>>
  /\ EndsWith(arg, DotMdx) /\ Dirname(arg) # <<>>

\* C16, as stated: pathToFilename called on docs/ followed by a filename it
\* returned returns that filename.
RemapReturnsSame == (fn = "pathToFilename" /\ again # <<>>) => again = ret

\* C16, amended: pathToFilename called on docs/ followed by a filename it
\* returned returns that filename with one more .md.
RemapAddsExtension ==
  (fn = "pathToFilename" /\ again # <<>>) => again[1] = ret[1] \o DotMd

\* C16: a filename returned for a path with the docs/ prefix and a directory
\* has been mapped again.
RemappedPrefixedPath ==
  /\ fn = "pathToFilename" /\ again # <<>>
  /\ StartsWith(arg, DocsSlash)
  /\ \E k \in (Len(DocsSlash) + 1)..Len(arg) : arg[k] = "/"

\* parseLlmsTxt has returned
Parsed == fn \in {"parseLlmsTxt", "parseLlmsTxtMap"} /\ ret # <<>>

\* the positions of the blob where ===/ begins a line
LineStarts(s) == {q \in 1..Len(s) : DelimAt(s, q) /\ (q = 1 \/ s[q - 1] = "\n")}

\* the positions of the blob where ===/ stands in the middle of a line
MidLine(s) == {q \in 2..Len(s) : DelimAt(s, q) /\ s[q - 1] # "\n"}

\* C17: no more documents are emitted than there are delimiters that begin a
\* line; no path holds a line break; and the body of the only document of a
\* blob with one delimiter line reaches to the end of the blob, whatever ===/
\* its lines hold.
SectionsStartAtLineStart ==
  Parsed =>
    /\ Len(ret[1]) <= Cardinality(LineStarts(arg))
    /\ \A k \in 1..Len(ret[1]) :
         \A j \in 1..Len(ret[1][k].path) : ret[1][k].path[j] # "\n"
    /\ (Cardinality(LineStarts(arg)) = 1 /\ Len(ret[1]) = 1)
         => EndsWith(Trim(arg), ret[1][1].content)

\* C18: no two documents emitted have the same path; the document of a path
\* has the body of the last section of that path, and documents are in the
\* order of the first sections of their paths.
OneDocumentPerPath ==
  Parsed =>
    LET all == ParseLlmsTxt(arg, FALSE)
        First(p) == Min({k \in 1..Len(all) : all[k].path = p})
        Last(p) == Max({k \in 1..Len(all) : all[k].path = p})
    IN  /\ \A k, m \in 1..Len(ret[1]) : ret[1][k].path = ret[1][m].path => k = m
        /\ \A k \in 1..Len(ret[1]) :
             ret[1][k].content = all[Last(ret[1][k].path)].content
        /\ \A k, m \in 1..Len(ret[1]) :
             k < m => First(ret[1][k].path) < First(ret[1][m].path)

\* the delimiter ===/path=== stands at position q of s
DelimiterAt(s, q, path) ==
  /\ DelimAt(s, q)
  /\ path # <<>> /\ \A j \in 1..Len(path) : path[j] # "="
  /\ q + Len(Delim) + Len(path) + Len(Eq3) - 1 <= Len(s)
  /\ SubSeq(s, q + Len(Delim), q + Len(Delim) + Len(path) + Len(Eq3) - 1) = path \o Eq3

\* the text of s from after the delimiter ===/path=== at q up to the next ===/
\* or the end, without the white space around it
BodyAfter(s, q, path) ==
  LET from == q + Len(Delim) + Len(path) + Len(Eq3)
      next == Min({r \in (q + 1)..Len(s) : DelimAt(s, r)} \cup {Len(s) + 1})
  IN  Trim(SubSeq(s, from, next - 1))

RECURSIVE Elements(_)
\* the elements of the trees nodes, in document order
Elements(nodes) ==
  IF nodes = <<>> THEN <<>>
  ELSE (IF Head(nodes).tag = "#text" THEN <<>> ELSE <<Head(nodes)>>)
       \o Elements(Head(nodes).kids) \o Elements(Tail(nodes))

\* C20: the content root found is an element of the document: the first one,
\* in document order, that matches the first selector of the list that matches
\* any element; the body when no selector matches any.
ContentRootIsFirstMatch ==
  (fn = "findContent" /\ ret # <<>>) =>
    LET els == Elements(<<arg>>)
        Hits(k) == {j \in 1..Len(els) : Matches(els[j], CONTENT_SELECTORS[k])}
        found == {k \in 1..Len(CONTENT_SELECTORS) : Hits(k) # {}}
    IN  /\ \E j \in 1..Len(els) : els[j] = ret[1]
        /\ IF found = {} THEN ret[1].tag = "body"
           ELSE ret[1] = els[Min(Hits(Min(found)))]

\* C20: the root found is the article of a page in which a main element, which
\* a later selector matches, stands before it.
LaterSelectorStandsFirst ==
  /\ fn = "findContent" /\ ret # <<>>
  /\ ret[1].tag = "article"
  /\ LET els == Elements(<<arg>>)
     IN  /\ Cardinality({j \in 1..Len(els) : els[j].tag = "article"}) = 1
         /\ \E j, k \in 1..Len(els) :
              j < k /\ els[j].tag = "main" /\ els[k] = ret[1]

\* C21: after the removal loop no element below the content root matches a
\* selector of the remove list.
NoRemovableDescendant ==
  (fn = "removeUnwanted" /\ ret # <<>>) =>
    \A j \in 1..Len(Elements(ret[1].kids)) : \A k \in 1..Len(REMOVE_SELECTORS) :
      ~Matches(Elements(ret[1].kids)[j], REMOVE_SELECTORS[k])

\* C21: the removal loop has run on a page whose content holds a nav in a
\* header and a script in a sidebar, below an element that stays, and has left
\* something.
NestedChromeRemoved ==
  /\ fn = "removeUnwanted" /\ ret # <<>> /\ ret[1].kids # <<>>
  /\ LET els == Elements(<<arg>>)
     IN  /\ \E j \in 1..Len(els) :
              els[j].tag = "header" /\ \E c \in 1..Len(els[j].kids) : els[j].kids[c].tag = "nav"
         /\ \E j \in 1..Len(els) :
              els[j].tag = "div" /\ \E c \in 1..Len(els[j].kids) : els[j].kids[c].tag = "script"

\* the first <code> element below the element n, in document order; <<>> if none
NestedCode(n) ==
  LET els == Elements(n.kids)
      C == {j \in 1..Len(els) : els[j].tag = "code"}
  IN  IF C = {} THEN <<>> ELSE <<els[Min(C)]>>

\* lang is named by the class attribute cls: language- followed by lang, and
\* then no further word character, stands in cls
NamedByClass(lang, cls) ==
  /\ lang # <<>> /\ \A j \in 1..Len(lang) : IsWord(lang[j])
  /\ \E q \in 1..Len(cls) :
       /\ q + Len(LanguageDash) + Len(lang) - 1 <= Len(cls)
       /\ SubSeq(cls, q, q + Len(LanguageDash) + Len(lang) - 1) = LanguageDash \o lang
       /\ (q + Len(LanguageDash) + Len(lang) <= Len(cls)
             => ~IsWord(cls[q + Len(LanguageDash) + Len(lang)]))

\* C22: the fence language of a <pre> is the one the class of its nested
\* <code> names, when it names one, whatever data-lang is; else the data-lang
\* attribute of that <code>; the empty string when there is neither, or no
\* nested <code>.
FenceLanguageByPriority ==
  (fn = "fencedBlock" /\ ret # <<>>) =>
    LET code == NestedCode(arg)
    IN  IF code = <<>> THEN ret[1].lang = <<>>
        ELSE IF \E q \in 1..Len(code[1].cls) : \E e \in q..Len(code[1].cls) :
                  NamedByClass(SubSeq(code[1].cls, q, e), code[1].cls)
        THEN NamedByClass(ret[1].lang, code[1].cls)
        ELSE ret[1].lang = code[1].dataLang

\* C22: the fence has been made for a <pre> whose <code> has both a language
\* class and a data-lang attribute.
FenceOfClassAndDataLang ==
  /\ fn = "fencedBlock" /\ ret # <<>>
  /\ NestedCode(arg) # <<>>
  /\ NestedCode(arg)[1].dataLang # <<>>
  /\ NamedByClass(<<"j", "s">>, NestedCode(arg)[1].cls)

\* a flattening mapper has returned
Flattened == fn \in {"pathToFilename", "outputName"} /\ ret # <<>>

\* the number of positions of s that hold the character c
Count(s, c) == Cardinality({j \in 1..Len(s) : s[j] = c})

\* two dashes stand side by side in s
DoubleDash(s) == \E j \in 1..(Len(s) - 1) : s[j] = "-" /\ s[j + 1] = "-"

\* C23, as stated: a filename a flattening mapper returns holds no path
\* separator and no two dashes side by side.
FlatNameHasNoSeparatorNoDashRun ==
  Flattened => (Count(ret[1], "/") = 0 /\ ~DoubleDash(ret[1]))

\* C23, amended: a filename a flattening mapper returns holds no path
\* separator; one that pathToFilename returns holds no two dashes side by side;
\* one of the fastmcp walk holds every dash of the path and one more for
\* every separator.
FlatNameHasNoSeparator ==
  Flattened =>
    /\ Count(ret[1], "/") = 0
    /\ fn = "pathToFilename" => ~DoubleDash(ret[1])
    /\ fn = "outputName" => Count(ret[1], "-") = Count(arg, "-") + Count(arg, "/")

\* C23: the fastmcp walk has returned a name with two dashes side by side for
\* a file below a directory whose name ends in a dash.
DashNextToSeparatorFlattened ==
  /\ fn = "outputName" /\ ret # <<>>
  /\ \E j \in 1..(Len(arg) - 1) : arg[j] = "-" /\ arg[j + 1] = "/"
  /\ DoubleDash(ret[1])

\* the positions of the blob where ===/ stands
Delims(s) == {q \in 1..Len(s) : DelimAt(s, q)}

\* C24: a blob without ===/ gives no document; for any other blob the
\* documents are those of the blob from its first ===/ on, so that the text
\* before it is in none of them.
TextBeforeFirstDelimiterDropped ==
  Parsed =>
    IF Delims(arg) = {} THEN ret[1] = <<>>
    ELSE /\ ret[1] = ParseLlmsTxt(SubSeq(arg, Min(Delims(arg)), Len(arg)),
                                  fn = "parseLlmsTxtMap")
         /\ \A k \in 1..Len(ret[1]) :
              \E q \in Delims(arg) : ret[1][k].content = BodyAfter(arg, q, ret[1][k].path)

\* C24: documents have been returned for a blob that begins with text other
\* than white space, before its first delimiter.
ParsedBlobWithPreamble ==
  /\ Parsed /\ ret[1] # <<>>
  /\ Delims(arg) # {} /\ Min(Delims(arg)) > 1
  /\ Trim(SubSeq(arg, 1, Min(Delims(arg)) - 1)) # <<>>

\* the script goes through a list of entries, fetching each
ListScript == script \in {"direct", "html"}

\* the list of the script
Entries == IF script = "direct" THEN DOC_PATHS ELSE DOC_PAGES

\* C25: in the direct-fetch and HTML-scrape scripts every step that fetches
\* fetches the entry after the last one fetched, when each entry fetched before
\* is counted as synced or failed, and leaves the entry it fetched counted.
FetchAfterPreviousSettled ==
  [][(ListScript /\ pc = "loop" /\ fetched' # fetched) =>
       /\ synced + failed = Len(fetched)
       /\ fetched' = Append(fetched, Len(fetched) + 1)
       /\ synced' + failed' = Len(fetched')]_vars

\* C25: the second entry has been fetched after the first had failed.
SecondFetchedAfterFirstFailed ==
  /\ ListScript /\ pc = "loop"
  /\ fetched = <<1, 2>> /\ failed >= 1 /\ synced = 1

\* C30: in the direct-fetch and HTML-scrape scripts synced + failed is the
\* number of entries gone through, which is the length of the list once the
\* run has ended; in direct fetch synced is the length of the result list, and
\* the fileCount of the manifest the run has written.
CountsAddUp ==
  (ListScript /\ runs > 0) =>
    /\ synced + failed = i - 1
    /\ Ended => synced + failed = Len(Entries)
    /\ script = "direct" =>
         /\ synced = Len(results)
         /\ (Ended /\ FreshManifest) => fs.manifest[1].fileCount = synced

\* C30: a direct-fetch run has ended with a manifest, some entries synced
\* and some failed.
EndedWithBothCounts ==
  /\ script = "direct" /\ Ended /\ FreshManifest
  /\ synced > 0 /\ failed > 0

\* C26, as stated: after real runs that completed, with no write that failed,
\* the documents in the output directory are the files the manifest lists.
OutputDirIsSnapshot ==
  (/\ Ended /\ ~dryRun /\ err = NoErr /\ ~wfail
   /\ prev # <<>> => (~prev[1].dryRun /\ ~prev[1].wfail /\ prev[1].exitCode = 0)
   /\ FreshManifest)
    => DOMAIN fs.files = Range(ManifestPaths(fs.manifest[1]))

\* C27: a step that writes a document finds the manifest as it was when the
\* run started and leaves it so; a step that writes the manifest writes no
\* document, in a real run without error; after an error nothing is written.
\* A run that was aborted in its document loop ends with the manifest of the
\* run before and with the documents it had written.
ManifestAfterDocuments ==
  /\ [][/\ fs'.files # fs.files =>
             (fs.manifest = fs0.manifest /\ fs'.manifest = fs.manifest)
        /\ fs'.manifest # fs.manifest =>
             (fs'.files = fs.files /\ err = NoErr /\ ~dryRun)
        /\ err # NoErr => fs' = fs]_vars
  /\ []((Ended /\ ItemError) =>
          (fs.manifest = fs0.manifest /\ Range(Written) \subseteq DOMAIN fs.files))

\* C27: a real run over the manifest of an earlier run has been aborted after
\* it had written a document.
AbortedAfterDocumentWrite ==
  /\ Ended /\ ~dryRun /\ ItemError
  /\ Written # <<>>
  /\ fs0.manifest # <<>>

\* C28: once the clone, the look-up of the source directory or the fetch of
\* llms.txt has failed, the documents and the manifest of the output directory
\* are those the run found, up to its end and after.
FailedAcquisitionWritesNothing ==
  (runs > 0 /\ Systemic) => (fs.files = fs0.files /\ fs.manifest = fs0.manifest)

\* C28: a real run over the documents and the manifest of an earlier run has
\* ended on a failed acquisition.
AcquisitionFailedOverFilledDirectory ==
  /\ Ended /\ ~dryRun /\ Systemic
  /\ fs0.files # <<>> /\ fs0.manifest # <<>>

RECURSIVE EntriesBelow(_, _, _)
\* every entry of the tree entries that is no directory, at any depth, in
\* readdir order, with the path and the names of its directories below the source
EntriesBelow(entries, relPath, dirs) ==
  IF entries = <<>> THEN <<>>
  ELSE (IF Head(entries).kind = "dir"
        THEN EntriesBelow(Head(entries).entries, Join(relPath, Head(entries).name),
                          dirs \cup {Head(entries).name})
        ELSE <<[entry |-> Head(entries), relPath |-> relPath, dirs |-> dirs]>>)
       \o EntriesBelow(Tail(entries), relPath, dirs)

\* a regular file named *.md or *.mdx, not named in the skip-file set, with no
\* directory above it named in the skip-directory set
Selected(f) ==
  /\ f.entry.kind = "file"
  /\ EndsWith(f.entry.name, DotMd) \/ EndsWith(f.entry.name, DotMdx)
  /\ f.entry.name \notin SKIP_FILES
  /\ f.dirs \cap SKIP_DIRS = {}

\* C29: the files the fastmcp walk yields are the selected files of the tree,
\* each once, in readdir order, and nothing else.
WalkYieldsSelectedFiles ==
  (fn = "processDir" /\ ret # <<>>) =>
    LET sel == SelectSeq(EntriesBelow(arg, <<>>, {}), Selected)
    IN  /\ Len(ret[1]) = Len(sel)
        /\ \A k \in 1..Len(sel) :
             /\ ret[1][k].name = sel[k].entry.name
             /\ ret[1][k].relPath = sel[k].relPath
             /\ ret[1][k].content = sel[k].entry.content

\* C29: the walk has returned for a tree with a document below a skipped
\* directory that lies in a directory that is not skipped, and has yielded a
\* document of that directory.
WalkedPastNestedSkipDir ==
  /\ fn = "processDir" /\ ret # <<>> /\ ret[1] # <<>>
  /\ \E k \in 1..Len(EntriesBelow(arg, <<>>, {})) :
       LET f == EntriesBelow(arg, <<>>, {})[k]
       IN  /\ f.dirs \cap SKIP_DIRS # {} /\ f.dirs \ SKIP_DIRS # {}
           /\ Head(f.relPath) # "a"

====
